---- MODULE Spec2Model ----
(***************************************************************************)
(* Verification model of the rofl-attestations registry: the SIWE token    *)
(* cache (worker.AuthClient), the front-end proxy path that shares its     *)
(* code, and the periodic verification worker (worker.Worker).             *)
(* All times are in seconds.                                               *)
(***************************************************************************)
EXTENDS Integers, Sequences, FiniteSets, TLC

VARIABLES
    now,        \* wall clock (time.Now), seconds since process start
    ticks,      \* number of clock advances taken so far (model bound only)
    cfg,        \* config.WorkerConfig as loaded
    repo,       \* the rofl.yaml found in the repository of each app (GitHub)
    boot,       \* position of cmd.run: "init" -> "api" -> "ready"
    sessions,   \* the AuthClient objects that have been constructed
    token,      \* AuthClient.token, per client (NoToken is "")
    exp,        \* AuthClient.exp, per client
    mu,         \* AuthClient.mu, per client: writer holding it and readers holding it
    hs,         \* per client: handshakes that succeeded, whether one failed, why the
                \* latest one failed ("none" while it runs or when it succeeded),
                \* the account of the login answer whose token is cached
    issuedAt,   \* backend: issuedAt[k] is the time the login endpoint issued token k
    gt,         \* per caller: its position inside GetToken and what it returned
    ctxDone,    \* the worker's context has been cancelled (ctx.Done() is closed)
    w,          \* the worker goroutine: position in Start and its locals
    db,         \* the store: apps, their rofl_yaml, the deployments table
    bk,         \* the backend: the number of tasks it has issued
    view,       \* the API server: the last answer of GET /htmx/apps/{id}
    tbl,        \* the deployments table as its rows, in order of insertion
    diag        \* the last call of formatVerificationError: its result and message

envVars == <<cfg, repo, boot, sessions, view, tbl, diag>>
authVars == <<token, exp, mu, hs, issuedAt, gt>>
cacheVars == <<token, exp, mu, hs, issuedAt>>
schedVars == <<ctxDone, w, db, bk>>
vars == <<now, ticks, cfg, repo, boot, sessions, token, exp, mu, hs, issuedAt, gt,
          ctxDone, w, db, bk, view, tbl, diag>>

-----------------------------------------------------------------------------
\* Bounds of the model.
NumProxy == 2       \* front-end proxy requests (handler goroutines)
MaxTicks == 3       \* clock advances in the token-cache specification
MaxNow == 150       \* the worker specification stops the clock here
MaxRows == 5        \* rows the deployments table may hold in the store specification

\* Program constants.
Margin == 300           \* 5 * time.Minute
CacheHours == 11        \* 11 * time.Hour
BackendHours == 12      \* "12 hours is the default from backend"
HttpTimeout == 30       \* http.Client{Timeout: 30 * time.Second}

CacheLifeDouble == 2 * CacheHours * 3600

\* a.exp = time.Now().Add(11 * time.Hour)
CacheLife == CacheHours * 3600
BackendLife == BackendHours * 3600

NoToken == 0
NoCaller == -1
Sched == 0
Proxies == 1..NumProxy
Callers == {Sched} \cup Proxies
Clients == {"worker", "api"}

\* The worker owns one AuthClient, the API server another one.
ClientOf(c) == IF c = Sched THEN "worker" ELSE "api"

Min(a, b) == IF a <= b THEN a ELSE b

\* A caller outside GetToken. Besides its position (pc) and the value returned
\* (res, at), a caller records whether it took the slow path (slow), whether it
\* performed a handshake itself and when that began (own, began), and what
\* became of the handshake of another caller it had to wait for (waited, wtok).
IdleCall == [pc |-> "idle", res |-> [ok |-> FALSE, tok |-> NoToken], at |-> 0, req |-> 0,
             slow |-> FALSE, own |-> FALSE, began |-> 0, waited |-> "no", wtok |-> NoToken]

-----------------------------------------------------------------------------
\* cmd.run: the two constructors, each building its own AuthClient when a
\* private key is configured.
ApiNew ==
    /\ boot = "init"
    /\ boot' = "api"
    /\ sessions' = IF cfg.hasKey THEN sessions \cup {"api"} ELSE sessions
    /\ UNCHANGED <<now, ticks, cfg, repo, view, tbl, diag, authVars, schedVars>>

WorkerNew ==
    /\ boot = "api"
    /\ boot' = "ready"
    /\ sessions' = IF cfg.hasKey THEN sessions \cup {"worker"} ELSE sessions
    /\ UNCHANGED <<now, ticks, cfg, repo, view, tbl, diag, authVars, schedVars>>

-----------------------------------------------------------------------------
\* AuthClient.GetToken

FreshAtMargin(cl) == token[cl] # NoToken /\ now + Margin <= exp[cl]

\* The validity test of GetToken: a token is cached and now+5min is before exp.
Fresh(cl) == token[cl] # NoToken /\ now + Margin < exp[cl]

InFlight(cl) == {c \in Callers : ClientOf(c) = cl /\ gt[c].pc \in {"nonce", "login"}}

\* sync.RWMutex
CanRLock(cl) == mu[cl].w = NoCaller
CanLock(cl) == mu[cl].w = NoCaller /\ mu[cl].r = {}

\* The record of a caller whose GetToken call returns now.
Returned(c, ok, tok) ==
    [gt[c] EXCEPT !.pc = "ret", !.res = [ok |-> ok, tok |-> tok], !.at = now, !.req = 0]

\* A call site invokes GetToken (submitToBackend, handleVerifyResults).
Call(c) ==
    /\ boot = "ready"
    /\ ClientOf(c) \in sessions
    /\ gt[c].pc = "idle"
    /\ gt' = [gt EXCEPT ![c] = [IdleCall EXCEPT !.pc = "call",
                  !.waited = IF InFlight(ClientOf(c)) # {} THEN "running" ELSE "no"]]
    /\ UNCHANGED <<now, ticks, envVars, cacheVars, schedVars>>

\* a.mu.RLock()
RLock(c) ==
    /\ gt[c].pc = "call"
    /\ CanRLock(ClientOf(c))
    /\ mu' = [mu EXCEPT ![ClientOf(c)].r = @ \cup {c}]
    /\ gt' = [gt EXCEPT ![c].pc = "rlocked"]
    /\ UNCHANGED <<now, ticks, envVars, token, exp, hs, issuedAt, schedVars>>

\* The first check, under the read lock, and a.mu.RUnlock() on either branch.
FastCheck(c) ==
    /\ gt[c].pc = "rlocked"
    /\ mu' = [mu EXCEPT ![ClientOf(c)].r = @ \ {c}]
    /\ gt' = [gt EXCEPT ![c] =
                IF Fresh(ClientOf(c))
                THEN Returned(c, TRUE, token[ClientOf(c)])
                ELSE [gt[c] EXCEPT !.pc = "wantlock", !.slow = TRUE]]
    /\ UNCHANGED <<now, ticks, envVars, token, exp, hs, issuedAt, schedVars>>

\* a.mu.Lock()
Lock(c) ==
    /\ gt[c].pc = "wantlock"
    /\ CanLock(ClientOf(c))
    /\ mu' = [mu EXCEPT ![ClientOf(c)].w = c]
    /\ gt' = [gt EXCEPT ![c].pc = "locked"]
    /\ UNCHANGED <<now, ticks, envVars, token, exp, hs, issuedAt, schedVars>>

\* The callers of client cl, other than c, whose GetToken call is under way
\* and has not yet got past the locks.
Waiting(cl, c) ==
    {d \in Callers \ {c} : ClientOf(d) = cl /\ gt[d].pc \in {"call", "rlocked", "wantlock"}}

\* GetToken starts performSIWELogin: the nonce request goes out.
BeginLogin(c) ==
    /\ gt' = [d \in Callers |->
                IF d = c THEN [gt[c] EXCEPT !.pc = "nonce", !.req = now, !.own = TRUE, !.began = now]
                ELSE IF d \in Waiting(ClientOf(c), c) THEN [gt[d] EXCEPT !.waited = "running"]
                ELSE gt[d]]
    /\ hs' = [hs EXCEPT ![ClientOf(c)].why = "none"]
    /\ UNCHANGED <<mu, token, exp>>

SlowNoRecheck(c) ==
    /\ gt[c].pc = "locked"
    /\ BeginLogin(c)
    /\ UNCHANGED <<now, ticks, envVars, issuedAt, schedVars>>

\* The second check, under the write lock (deferred Unlock on return).
SlowCheck(c) ==
    /\ gt[c].pc = "locked"
    /\ IF Fresh(ClientOf(c))
       THEN /\ gt' = [gt EXCEPT ![c] = Returned(c, TRUE, token[ClientOf(c)])]
            /\ mu' = [mu EXCEPT ![ClientOf(c)].w = NoCaller]
            /\ UNCHANGED <<token, exp, hs>>
       ELSE BeginLogin(c)
    /\ UNCHANGED <<now, ticks, envVars, issuedAt, schedVars>>

\* The handshake of caller c has ended (ok: with token tok): c returns, and the
\* callers that were waiting for it learn its outcome.
EndLogin(c, ok, tok) ==
    [d \in Callers |->
        IF d = c THEN Returned(c, ok, tok)
        ELSE IF ClientOf(d) = ClientOf(c) /\ gt[d].waited = "running"
        THEN [gt[d] EXCEPT !.waited = IF ok THEN "ok" ELSE "failed", !.wtok = tok]
        ELSE gt[d]]

FailLoginClears(c, why) ==
    /\ gt' = EndLogin(c, FALSE, NoToken)
    /\ hs' = [hs EXCEPT ![ClientOf(c)].failed = TRUE, ![ClientOf(c)].why = why]
    /\ mu' = [mu EXCEPT ![ClientOf(c)].w = NoCaller]
    /\ token' = [token EXCEPT ![ClientOf(c)] = NoToken]
    /\ UNCHANGED <<exp, issuedAt>>

\* The handshake of caller c ends in an error (why: "fail" when a request or
\* the signing failed, "empty" or "mismatch" when a check of the login answer
\* did): GetToken returns it, the cache is untouched.
FailLogin(c, why) ==
    /\ gt' = EndLogin(c, FALSE, NoToken)
    /\ hs' = [hs EXCEPT ![ClientOf(c)].failed = TRUE, ![ClientOf(c)].why = why]
    /\ mu' = [mu EXCEPT ![ClientOf(c)].w = NoCaller]
    /\ UNCHANGED <<token, exp, issuedAt>>

\* A request made with the caller's context gets no answer once that context
\* has been cancelled. The worker's calls carry the worker's context; the
\* context of a proxy request is not modelled (its failures are among the errors).
CtxCancelled(c) == c = Sched /\ ctxDone

\* getNonce answers: with a nonce from which the message is built and signed
\* (ok), or with an error, or with a nonce the message cannot be built from.
GetNonce(c, ok) ==
    /\ gt[c].pc = "nonce"
    /\ ok => ~CtxCancelled(c)
    /\ IF ok
       THEN /\ gt' = [gt EXCEPT ![c].pc = "login", ![c].req = now]
            /\ UNCHANGED <<token, exp, mu, hs, issuedAt>>
       ELSE FailLogin(c, "fail")
    /\ UNCHANGED <<now, ticks, envVars, schedVars>>

\* An address as a string: its hex digits, and whether letters are in upper
\* case (address.Hex() is mixed-case, a backend may echo it in lower case).
OwnAddress == [hex |-> "ab", upper |-> TRUE]
Addresses == {OwnAddress, [hex |-> "ab", upper |-> FALSE], [hex |-> "cd", upper |-> FALSE]}

ToLower(a) == [a EXCEPT !.upper = FALSE]

\* strings.EqualFold
EqualFold(a, b) == ToLower(a) = ToLower(b)

\* The answers to the login request: no 200 or no decodable body, or a body
\* with a token (possibly empty) and an echoed address.
LoginResponses ==
    {[code |-> "err", hasToken |-> FALSE, address |-> OwnAddress]}
    \cup {[code |-> "200", hasToken |-> h, address |-> a] : h \in BOOLEAN, a \in Addresses}

\* The answers without the ones the checks of authenticate reject. A rejected
\* answer ends the handshake exactly as a failed request does (FailLogin), so
\* of the callers of the API server's client only the first draws from all
\* answers, the others draw from these.
PlainResponses == {r \in LoginResponses : r.code = "200" => r.hasToken /\ r.address = OwnAddress}

LoginOutcomeNoAddress(resp) ==
    IF resp.code # "200" THEN "fail"
    ELSE IF ~resp.hasToken THEN "empty"
    ELSE "ok"

\* authenticate: the checks on the answer, in the order of the code.
LoginOutcome(resp) ==
    IF resp.code # "200" THEN "fail"
    ELSE IF ~resp.hasToken THEN "empty"
    ELSE IF ~EqualFold(resp.address, OwnAddress) THEN "mismatch"
    ELSE "ok"

LoginOutcomes == {"ok", "fail", "empty", "mismatch"}

\* authenticate gets the answer resp. On "ok" the login endpoint issued a token
\* at time t, between the request and the answer; GetToken caches it with
\* exp = now + 11h.
Authenticate(c, resp, t) ==
    /\ gt[c].pc = "login"
    /\ resp.code = "200" => ~CtxCancelled(c)
    /\ IF LoginOutcome(resp) = "ok"
       THEN LET cl == ClientOf(c)
                tok == Len(issuedAt) + 1
            IN /\ issuedAt' = Append(issuedAt, t)
               /\ token' = [token EXCEPT ![cl] = tok]
               /\ exp' = [exp EXCEPT ![cl] = now + CacheLife]
               /\ hs' = [hs EXCEPT ![cl].ok = @ + 1, ![cl].acct = resp.address.hex]
               /\ gt' = EndLogin(c, TRUE, tok)
               /\ mu' = [mu EXCEPT ![cl].w = NoCaller]
       ELSE FailLogin(c, LoginOutcome(resp))
    /\ UNCHANGED <<now, ticks, envVars, schedVars>>

\* An outstanding request of the handshake ends within the client's timeout.
RequestsAllow(d) ==
    \A c \in Callers : gt[c].pc \in {"nonce", "login"} => now + d <= gt[c].req + HttpTimeout

GetTokenStep(c, answers) ==
    \/ RLock(c)
    \/ FastCheck(c)
    \/ Lock(c)
    \/ SlowCheck(c)
    \/ \E ok \in BOOLEAN : GetNonce(c, ok)
    \/ \E resp \in answers, t \in {gt[c].req, now} : Authenticate(c, resp, t)

-----------------------------------------------------------------------------
\* Time passes (token-cache specification): by a second, by a request timeout,
\* up to one second before a token cached now goes stale.
AuthSteps == {1, HttpTimeout, CacheLife - Margin - 1}

TickAuth ==
    /\ ticks < MaxTicks
    /\ \E d \in AuthSteps :
         /\ RequestsAllow(d)
         /\ now' = now + d
    /\ ticks' = ticks + 1
    /\ UNCHANGED <<envVars, authVars, schedVars>>

-----------------------------------------------------------------------------
\* worker.Worker

AppInterval == cfg.appInterval * 60     \* time.Duration(AppInterval) * time.Minute
PollInterval == cfg.pollInterval        \* time.Duration(PollInterval) * time.Second
PollTimeout == cfg.pollTimeout * 60     \* time.Duration(PollTimeout) * time.Minute

AppIds == {1, 2}
\* The deployment names of the model, in the order of ORDER BY deployment_name ASC.
NameOrder == <<"devnet", "mainnet", "staging", "testnet">>
Names == {NameOrder[i] : i \in 1..Len(NameOrder)}
NoTask == 0
NoRec == [status |-> "none", commit |-> "", msg |-> ""]
NoResult == [verified |-> FALSE, commit |-> "", err |-> "none"]

\* A rofl.yaml is empty ("empty"), not parseable ("bad"), or a manifest
\* declaring a set of deployments ("yaml").
FetchErr == [kind |-> "err", deps |-> {}]      \* no 200, or the body was not read
NoYaml == [kind |-> "none", deps |-> {}]        \* rofl_yaml is NULL

WorkerConfig(enabled, hasKey, pollInterval) ==
    [enabled |-> enabled, hasKey |-> hasKey,
     appInterval |-> 1, pollInterval |-> pollInterval, pollTimeout |-> 1]

Manifest(kind, deps) == [kind |-> kind, deps |-> deps]

\* A poll interval (seconds) as long as a cached token stays fresh, with a poll
\* timeout (minutes) a minute longer: the token that authenticated the
\* submission is stale at the first status check.
LongInterval == CacheLife - Margin
LongTimeout == ((CacheLife - Margin) \div 60) + 1

\* The records an earlier run of the process left in the store: a deployment of
\* app 1 that its manifest no longer declares, and one of app 2, whose manifest
\* declares none any more.
EarlierRun ==
    (<<1, "staging">> :> [status |-> "verified", commit |-> "old111", msg |-> "MATCH"])
    @@ (<<2, "devnet">> :> [status |-> "failed", commit |-> "", msg |-> "timeout"])

\* The runs explored: a configuration (worker enabled or not, with or without
\* a private key, poll interval longer or shorter than the poll timeout, or as
\* long as a token stays fresh), the number of registered apps, the rofl.yaml
\* of each app's repository, and whether the store holds the records of an
\* earlier run.
Worlds ==
    { [cfg |-> WorkerConfig(TRUE, FALSE, 40), apps |-> 2,
       repo |-> <<Manifest("yaml", {"mainnet", "testnet"}), Manifest("bad", {})>>, old |-> FALSE],
      [cfg |-> WorkerConfig(TRUE, FALSE, 70), apps |-> 2,
       repo |-> <<Manifest("yaml", {"testnet"}), Manifest("yaml", {})>>, old |-> TRUE],
      [cfg |-> WorkerConfig(TRUE, FALSE, 70), apps |-> 2,
       repo |-> <<Manifest("empty", {}), Manifest("bad", {})>>, old |-> FALSE],
      [cfg |-> WorkerConfig(TRUE, TRUE, 20), apps |-> 1,
       repo |-> <<Manifest("yaml", {"testnet"}), Manifest("empty", {})>>, old |-> FALSE],
      [cfg |-> [WorkerConfig(TRUE, TRUE, LongInterval) EXCEPT !.pollTimeout = LongTimeout], apps |-> 2,
       repo |-> <<Manifest("yaml", {"testnet"}), Manifest("yaml", {"testnet"})>>, old |-> FALSE],
      [cfg |-> WorkerConfig(TRUE, FALSE, 70), apps |-> 0,
       repo |-> <<Manifest("empty", {}), Manifest("empty", {})>>, old |-> FALSE],
      [cfg |-> WorkerConfig(FALSE, TRUE, 20), apps |-> 1,
       repo |-> <<Manifest("yaml", {"testnet"}), Manifest("empty", {})>>, old |-> FALSE] }

\* VerifyDeploymentsResult bodies of a 200 answer.
Results ==
    { [verified |-> TRUE, commit |-> "abc123", err |-> ""],
      [verified |-> FALSE, commit |-> "abc123", err |-> "exit status 1"] }

\* The answers to a status request: a status code with its body, or no answer
\* at all ("err": transport error or client timeout).
StatusAnswers ==
    {[code |-> "200", body |-> r] : r \in Results}
    \cup {[code |-> c, body |-> NoResult] : c \in {"200bad", "202", "404", "500", "err"}}

NoAnswer == [code |-> "none", body |-> NoResult]
NoPoll == [kind |-> "none", res |-> NoResult, at |-> 0, ctx |-> FALSE]
NoPut == [rec |-> NoRec, ok |-> FALSE]

IdleWorker ==
    [pc |-> "start", ret |-> "none", apps |-> <<>>, idx |-> 0, after |-> "", wakeAt |-> 0,
     todo |-> {}, cur |-> "", err |-> FALSE, req |-> 0,
     task |-> NoTask, deadline |-> 0, nextTick |-> 0, tick |-> FALSE,
     \* bookkeeping, read by the properties only: the apps inside verifyApp, the
     \* tasks submitted and not yet polled to an end; of the current poll, the
     \* requests sent, the last answer, when the last check ended, how it returned
     \* (and whether the context was cancelled by then); the record verifyDeployment
     \* gave to UpsertDeployment and whether the store took it; the deployments
     \* verifyApp has been through
     processing |-> {}, awaiting |-> {},
     reqs |-> 0, last |-> NoAnswer, chkEnd |-> 0, poll |-> NoPoll,
     put |-> NoPut, done |-> {},
     \* the (app, deployment) pairs a submission was sent for in this cycle, and
     \* whether a second one was sent for a pair
     sent |-> {}, resent |-> FALSE,
     \* the apps verifyApp was called for in this cycle, in the order of the calls
     visited |-> <<>>,
     \* how fetchRoflYAML ended for the current app: "err" (no file), "storeErr"
     \* (the file was fetched, UpdateAppRoflYAML failed), "ok"
     fetch |-> "none",
     \* the deployments verifyDeployment was called for in this pass over the app,
     \* in the order of the calls, and what each handed to the store
     order |-> <<>>, outc |-> [n \in Names |-> NoPut],
     tickAfterCancel |-> FALSE, reqAfterCancel |-> FALSE, reqAfter200 |-> FALSE]

\* authClient != nil
HasAuth(c) == ClientOf(c) \in sessions

SendAlways == TRUE

\* http.NewRequestWithContext(ctx, ...) + client.Do: a request whose context is
\* already cancelled is not sent.
SendAllowed == ~ctxDone

CurApp(w0) == w0.apps[w0.idx]

InsertDeployment(deps, app, name, commit, status, msg) ==
    IF deps[<<app, name>>].status # "none" THEN deps
    ELSE [deps EXCEPT ![<<app, name>>] = [status |-> status, commit |-> commit, msg |-> msg]]

UpsertReplacingApp(deps, app, name, commit, status, msg) ==
    [k \in DOMAIN deps |->
        IF k = <<app, name>> THEN [status |-> status, commit |-> commit, msg |-> msg]
        ELSE IF k[1] = app THEN NoRec
        ELSE deps[k]]

UpsertAppWide(deps, app, name, commit, status, msg) ==
    [k \in DOMAIN deps |->
        IF k[1] = app /\ (k[2] = name \/ deps[k].status # "none")
        THEN [status |-> status, commit |-> commit, msg |-> msg]
        ELSE deps[k]]

\* DB.UpsertDeployment: INSERT ... ON CONFLICT(app_id, deployment_name) DO UPDATE
UpsertDeployment(deps, app, name, commit, status, msg) ==
    [deps EXCEPT ![<<app, name>>] = [status |-> status, commit |-> commit, msg |-> msg]]

\* The deployments table as rows: id (AUTOINCREMENT), the key (app_id,
\* deployment_name), the values, and whether updated_at is later than created_at.
HasRow(rows, app, name) == \E i \in 1..Len(rows) : rows[i].app = app /\ rows[i].name = name

InsertRows(rows, app, name, commit, status, msg) ==
    Append(rows, [id |-> Len(rows) + 1, app |-> app, name |-> name, commit |-> commit,
                  status |-> status, msg |-> msg, updated |-> FALSE])

\* DB.UpsertDeployment on the rows: the INSERT, which the UNIQUE(app_id,
\* deployment_name) constraint turns into the DO UPDATE of the row in conflict.
UpsertRows(rows, app, name, commit, status, msg) ==
    IF HasRow(rows, app, name)
    THEN [i \in 1..Len(rows) |->
            IF rows[i].app = app /\ rows[i].name = name
            THEN [rows[i] EXCEPT !.commit = commit, !.status = status, !.msg = msg,
                                 !.updated = TRUE]
            ELSE rows[i]]
    ELSE Append(rows, [id |-> Len(rows) + 1, app |-> app, name |-> name, commit |-> commit,
                       status |-> status, msg |-> msg, updated |-> FALSE])

\* The record a SELECT by key finds in the rows.
RecordOf(rows, k) ==
    IF HasRow(rows, k[1], k[2])
    THEN LET i == CHOOSE j \in 1..Len(rows) : rows[j].app = k[1] /\ rows[j].name = k[2]
         IN [status |-> rows[i].status, commit |-> rows[i].commit, msg |-> rows[i].msg]
    ELSE NoRec

\* DB.GetAllApps: ORDER BY id ASC
GetAllApps == [i \in 1..db.apps |-> i]

\* Worker.formatVerificationError, by the kind of message it builds.
formatVerificationError(r) ==
    IF r.err = "exit status 1" THEN "mismatch"
    ELSE IF r.err # "" THEN r.err
    ELSE "generic"

\* select { case <-ctx.Done(): return ctx.Err(); case <-time.After(appInterval): }
Sleep(w0, after) == [w0 EXCEPT !.pc = "sleep", !.after = after, !.wakeAt = now + AppInterval]

\* return ctx.Err()
ReturnCtxErr(w0) == [w0 EXCEPT !.pc = "ret", !.ret = "ctxErr"]

\* Start
Start ==
    /\ boot = "ready"
    /\ w.pc = "start"
    /\ w' = IF ~cfg.enabled THEN [w EXCEPT !.pc = "ret", !.ret = "nil"]
            ELSE [w EXCEPT !.pc = "loop"]
    /\ UNCHANGED <<now, ticks, envVars, authVars, ctxDone, db, bk>>

ListFailedReturns(w0) == [w0 EXCEPT !.pc = "ret", !.ret = "err"]

\* The head of a cycle: the context check, then GetAllApps (listed: it succeeded);
\* when the listing fails Start logs the error and waits for the next cycle.
ListFailed(w0) == Sleep(w0, "retry")

CycleHead(listed) ==
    /\ w.pc = "loop"
    /\ w' = IF ctxDone THEN ReturnCtxErr(w)
            ELSE IF ~listed THEN ListFailed(w)
            ELSE IF db.apps = 0 THEN Sleep([w EXCEPT !.apps = <<>>, !.idx = 0], "empty")
            ELSE [w EXCEPT !.pc = "app", !.apps = GetAllApps, !.idx = 1, !.sent = {},
                           !.visited = <<>>]
    /\ UNCHANGED <<now, ticks, envVars, authVars, ctxDone, db, bk>>

SleepNoCancel ==
    /\ w.pc = "sleep"
    /\ ctxDone
    /\ FALSE
    /\ UNCHANGED vars

\* A wait of the loop is ended by the cancellation ...
SleepCancel ==
    /\ w.pc = "sleep"
    /\ ctxDone
    /\ w' = ReturnCtxErr(w)
    /\ UNCHANGED <<now, ticks, envVars, authVars, ctxDone, db, bk>>

\* ... or by its timer.
SleepWake ==
    /\ w.pc = "sleep"
    /\ now >= w.wakeAt
    /\ w' = IF w.after = "app"
            THEN [w EXCEPT !.pc = "app", !.idx = @ + 1, !.after = "", !.wakeAt = 0]
            ELSE [w EXCEPT !.pc = "loop", !.after = "", !.wakeAt = 0]
    /\ UNCHANGED <<now, ticks, envVars, authVars, ctxDone, db, bk>>

\* The head of the per-app loop: the context check, then verifyApp, whose
\* first step sends the request for rofl.yaml.
AppHead ==
    /\ w.pc = "app"
    /\ w' = IF ctxDone THEN ReturnCtxErr(w)
            ELSE [w EXCEPT !.pc = "fetch", !.req = now, !.err = FALSE, !.done = {},
                           !.processing = @ \cup {CurApp(w)},
                           !.visited = Append(@, CurApp(w)), !.fetch = "none",
                           !.order = <<>>, !.outc = [n \in Names |-> NoPut]]
    /\ UNCHANGED <<now, ticks, envVars, authVars, ctxDone, db, bk>>

\* The locals of verifyDeployment and pollResults (and the bookkeeping of the
\* poll) as they are when a call of verifyDeployment begins.
NewDeployment(w0) ==
    [w0 EXCEPT !.cur = "", !.req = 0, !.task = NoTask, !.deadline = 0, !.nextTick = 0,
               !.tick = FALSE, !.reqs = 0, !.last = NoAnswer, !.chkEnd = 0, !.poll = NoPoll,
               !.put = NoPut]

AppEndAbortOnErr(w0, err) ==
    Sleep([NewDeployment(w0) EXCEPT !.processing = @ \ {CurApp(w0)}, !.todo = {}, !.err = err],
          IF w0.idx < Len(w0.apps) /\ ~err THEN "app" ELSE "cycle")

AppEndNoWait(w0, err) ==
    LET w1 == [NewDeployment(w0) EXCEPT !.processing = @ \ {CurApp(w0)}, !.todo = {}, !.err = err]
    IN IF w0.idx < Len(w0.apps) THEN [w1 EXCEPT !.pc = "app", !.idx = @ + 1]
       ELSE Sleep(w1, "cycle")

\* verifyApp returns (err: with an error, which Start logs); Start then waits:
\* before the next app, or, after the last one, before the next cycle.
AppEnd(w0, err) ==
    Sleep([NewDeployment(w0) EXCEPT !.processing = @ \ {CurApp(w0)}, !.todo = {}, !.err = err],
          IF w0.idx < Len(w0.apps) THEN "app" ELSE "cycle")

\* The answers to the request for rofl.yaml: the file, or no usable answer.
FetchAnswers == IF w.pc = "fetch" THEN {repo[CurApp(w)], FetchErr} ELSE {}

\* fetchRoflYAML gets its answer (m: the file, or "err"), stores the file
\* (stored: UpdateAppRoflYAML succeeded), and verifyApp parses it.
FetchRespond(m, stored) ==
    /\ w.pc = "fetch"
    /\ m # FetchErr => ~ctxDone
    /\ stored => (m # FetchErr /\ ~ctxDone)
    /\ db' = IF stored THEN [db EXCEPT !.yaml[CurApp(w)] = m] ELSE db
    /\ LET w1 == [w EXCEPT !.fetch = IF m = FetchErr THEN "err"
                                     ELSE IF ~stored THEN "storeErr" ELSE "ok"]
       IN w' = IF m = FetchErr \/ ~stored THEN AppEnd(w1, TRUE)
               ELSE IF m.kind = "empty" THEN AppEnd(w1, FALSE)
               ELSE IF m.kind = "bad" THEN AppEnd(w1, TRUE)
               ELSE IF m.deps = {} THEN AppEnd(w1, FALSE)
               ELSE [w1 EXCEPT !.pc = "dep", !.todo = m.deps]
    /\ UNCHANGED <<now, ticks, envVars, authVars, ctxDone, bk>>

FinishIgnoresCtx(w0, commit, status, msg, isErr) ==
    \E dbok \in BOOLEAN :
        /\ db' = IF dbok
                 THEN [db EXCEPT !.deps = UpsertDeployment(@, CurApp(w0), w0.cur, commit, status, msg)]
                 ELSE db
        /\ w' = [w0 EXCEPT !.pc = "dep", !.err = @ \/ isErr \/ ~dbok,
                           !.put = [rec |-> [status |-> status, commit |-> commit, msg |-> msg],
                                    ok |-> dbok],
                           !.done = @ \cup {w0.cur},
                           !.order = Append(@, w0.cur),
                           !.outc[w0.cur] = [rec |-> [status |-> status, commit |-> commit, msg |-> msg],
                                             ok |-> dbok]]

\* verifyDeployment writes its outcome and returns (isErr: with an error); a
\* write under a cancelled context fails.
Finish(w0, commit, status, msg, isErr) ==
    \E dbok \in BOOLEAN :
        /\ dbok => ~ctxDone
        /\ db' = IF dbok
                 THEN [db EXCEPT !.deps = UpsertDeployment(@, CurApp(w0), w0.cur, commit, status, msg)]
                 ELSE db
        /\ w' = [w0 EXCEPT !.pc = "dep", !.err = @ \/ isErr \/ ~dbok,
                           !.put = [rec |-> [status |-> status, commit |-> commit, msg |-> msg],
                                    ok |-> dbok],
                           !.done = @ \cup {w0.cur},
                           !.order = Append(@, w0.cur),
                           !.outc[w0.cur] = [rec |-> [status |-> status, commit |-> commit, msg |-> msg],
                                             ok |-> dbok]]

\* submitVerification failed.
SubmitFail(w0) == Finish(w0, "", "failed", "submit", TRUE)

PollFailAbort(w0, kind) ==
    Finish([w0 EXCEPT !.poll = [kind |-> kind, res |-> NoResult, at |-> now, ctx |-> ctxDone],
                      !.awaiting = @ \ {w0.task}, !.todo = {}],
           "", "failed", kind, TRUE)

\* pollResults returned an error of the given kind.
PollFail(w0, kind) ==
    Finish([w0 EXCEPT !.poll = [kind |-> kind, res |-> NoResult, at |-> now, ctx |-> ctxDone],
                      !.awaiting = @ \ {w0.task}],
           "", "failed", kind, TRUE)

PollOkRawStatus(w0, r) ==
    Finish([w0 EXCEPT !.poll = [kind |-> "ok", res |-> r, at |-> now, ctx |-> ctxDone],
                      !.awaiting = @ \ {w0.task}],
           r.commit,
           IF r.verified THEN "verified" ELSE r.err,
           IF r.verified THEN "MATCH" ELSE formatVerificationError(r),
           FALSE)

PollOkAlwaysVerified(w0, r) ==
    Finish([w0 EXCEPT !.poll = [kind |-> "ok", res |-> r, at |-> now, ctx |-> ctxDone],
                      !.awaiting = @ \ {w0.task}],
           r.commit,
           "verified",
           IF r.verified THEN "MATCH" ELSE formatVerificationError(r),
           FALSE)

PollOkReportsError(w0, r) ==
    Finish([w0 EXCEPT !.poll = [kind |-> "ok", res |-> r, at |-> now, ctx |-> ctxDone],
                      !.awaiting = @ \ {w0.task}],
           r.commit,
           IF r.verified THEN "verified" ELSE "failed",
           IF r.verified THEN "MATCH" ELSE formatVerificationError(r),
           ~r.verified)

\* pollResults returned the result r.
PollOk(w0, r) ==
    Finish([w0 EXCEPT !.poll = [kind |-> "ok", res |-> r, at |-> now, ctx |-> ctxDone],
                      !.awaiting = @ \ {w0.task}],
           r.commit,
           IF r.verified THEN "verified" ELSE "failed",
           IF r.verified THEN "MATCH" ELSE formatVerificationError(r),
           FALSE)

\* The worker calls GetToken.
CallGetToken == gt' = [gt EXCEPT ![Sched] = [IdleCall EXCEPT !.pc = "call"]]

\* submitVerification sends the POST.
SendSubmit(w0) ==
    IF SendAllowed
    THEN /\ w' = [w0 EXCEPT !.pc = "submit", !.req = now,
                            !.sent = @ \cup {<<CurApp(w0), w0.cur>>},
                            !.resent = @ \/ <<CurApp(w0), w0.cur>> \in w0.sent]
         /\ UNCHANGED db
    ELSE SubmitFail(w0)

\* verifyApp's loop over the manifest's deployments (a Go map: any order);
\* each starts verifyDeployment, which starts submitVerification.
DepNext ==
    /\ w.pc = "dep"
    /\ IF w.todo = {}
       THEN /\ w' = AppEnd(w, w.err)
            /\ UNCHANGED <<db, gt>>
       ELSE \E d \in w.todo :
              LET w1 == [NewDeployment(w) EXCEPT !.cur = d, !.todo = @ \ {d}]
              IN IF HasAuth(Sched)
                 THEN /\ CallGetToken
                      /\ w' = [w1 EXCEPT !.pc = "submit_auth"]
                      /\ UNCHANGED db
                 ELSE /\ SendSubmit(w1)
                      /\ UNCHANGED gt
    /\ UNCHANGED <<now, ticks, envVars, cacheVars, ctxDone, bk>>

SubmitAuthDoneSends ==
    /\ w.pc = "submit_auth"
    /\ gt[Sched].pc = "ret"
    /\ gt' = [gt EXCEPT ![Sched] = IdleCall]
    /\ SendSubmit(w)
    /\ UNCHANGED <<now, ticks, envVars, cacheVars, ctxDone, bk>>

\* submitVerification has its token, or the error of GetToken.
SubmitAuthDone ==
    /\ w.pc = "submit_auth"
    /\ gt[Sched].pc = "ret"
    /\ gt' = [gt EXCEPT ![Sched] = IdleCall]
    /\ IF gt[Sched].res.ok THEN SendSubmit(w) ELSE SubmitFail(w)
    /\ UNCHANGED <<now, ticks, envVars, cacheVars, ctxDone, bk>>

StartPollTickNow(w0) ==
    [w0 EXCEPT !.pc = "poll", !.deadline = now + PollTimeout,
               !.nextTick = now + PollInterval, !.tick = TRUE]

\* pollResults starts: the deadline, then the ticker.
StartPoll(w0) ==
    [w0 EXCEPT !.pc = "poll", !.deadline = now + PollTimeout,
               !.nextTick = now + PollInterval, !.tick = FALSE]

AfterSubmitNoPoll(w0) == [w0 EXCEPT !.pc = "dep"]

\* After a successful submission verifyDeployment polls.
AfterSubmit(w0) == StartPoll(w0)

SubmitOutcomes == {"err", "ok", "okEmpty"}

SubmitRespondRetry(o) ==
    /\ w.pc = "submit"
    /\ o # "err" => ~ctxDone
    /\ IF o = "err"
       THEN /\ SendSubmit(w)
            /\ UNCHANGED bk
       ELSE IF o = "ok"
       THEN /\ bk' = [bk EXCEPT !.tasks = @ + 1]
            /\ w' = AfterSubmit([w EXCEPT !.task = bk.tasks + 1, !.awaiting = @ \cup {bk.tasks + 1}])
            /\ UNCHANGED db
       ELSE /\ w' = AfterSubmit([w EXCEPT !.task = NoTask])
            /\ UNCHANGED <<db, bk>>
    /\ UNCHANGED <<now, ticks, envVars, authVars, ctxDone>>

\* The submission is answered: no 200 or no decodable body ("err"), 200 with a
\* task id ("ok"), 200 with an empty task id ("okEmpty").
SubmitRespond(o) ==
    /\ w.pc = "submit"
    /\ o # "err" => ~ctxDone
    /\ IF o = "err"
       THEN /\ SubmitFail(w)
            /\ UNCHANGED bk
       ELSE IF o = "ok"
       THEN /\ bk' = [bk EXCEPT !.tasks = @ + 1]
            /\ w' = AfterSubmit([w EXCEPT !.task = bk.tasks + 1, !.awaiting = @ \cup {bk.tasks + 1}])
            /\ UNCHANGED db
       ELSE /\ w' = AfterSubmit([w EXCEPT !.task = NoTask])
            /\ UNCHANGED <<db, bk>>
    /\ UNCHANGED <<now, ticks, envVars, authVars, ctxDone>>

PollCancelRecords ==
    /\ w.pc = "poll"
    /\ ctxDone
    /\ FinishIgnoresCtx([w EXCEPT !.poll = [kind |-> "cancel", res |-> NoResult, at |-> now,
                                           ctx |-> ctxDone],
                                  !.awaiting = @ \ {w.task}],
                        "", "failed", "cancel", TRUE)
    /\ UNCHANGED <<now, ticks, envVars, authVars, ctxDone, bk>>

\* pollResults: case <-ctx.Done()
PollCancel ==
    /\ w.pc = "poll"
    /\ ctxDone
    /\ PollFail(w, "cancel")
    /\ UNCHANGED <<now, ticks, envVars, authVars, ctxDone, bk>>

PastDeadlineAlways(w0) == TRUE

PastDeadlineLate(w0) == now > w0.deadline + PollInterval + HttpTimeout

\* time.Now().After(deadline)
PastDeadline(w0) == now > w0.deadline

SendStatusWritesPending(w0) ==
    IF SendAllowed
    THEN /\ w' = [w0 EXCEPT !.pc = "check", !.req = now, !.reqs = @ + 1,
                            !.reqAfterCancel = @ \/ ctxDone,
                            !.reqAfter200 = @ \/ w0.last.code \in {"200", "200bad"}]
         /\ db' = [db EXCEPT !.deps = UpsertDeployment(@, CurApp(w0), w0.cur, "", "pending", "")]
    ELSE PollFail([w0 EXCEPT !.last = [code |-> "err", body |-> NoResult]], "err")

\* checkResults sends the GET.
SendStatus(w0) ==
    IF SendAllowed
    THEN /\ w' = [w0 EXCEPT !.pc = "check", !.req = now, !.reqs = @ + 1,
                            !.reqAfterCancel = @ \/ ctxDone,
                            !.reqAfter200 = @ \/ w0.last.code \in {"200", "200bad"}]
         /\ UNCHANGED db
    ELSE PollFail([w0 EXCEPT !.last = [code |-> "err", body |-> NoResult]], "err")

\* pollResults: case <-ticker.C, the deadline test, then checkResults.
PollTick ==
    /\ w.pc = "poll"
    /\ w.tick
    /\ LET w1 == [w EXCEPT !.tick = FALSE, !.tickAfterCancel = @ \/ ctxDone]
       IN IF PastDeadline(w1)
          THEN /\ PollFail(w1, "timeout")
               /\ UNCHANGED gt
          ELSE IF HasAuth(Sched)
          THEN /\ CallGetToken
               /\ w' = [w1 EXCEPT !.pc = "check_auth"]
               /\ UNCHANGED db
          ELSE /\ SendStatus(w1)
               /\ UNCHANGED gt
    /\ UNCHANGED <<now, ticks, envVars, cacheVars, ctxDone, bk>>

\* checkResults has its token, or the error of GetToken.
CheckAuthDone ==
    /\ w.pc = "check_auth"
    /\ gt[Sched].pc = "ret"
    /\ gt' = [gt EXCEPT ![Sched] = IdleCall]
    /\ IF gt[Sched].res.ok THEN SendStatus(w)
       ELSE PollFail([w EXCEPT !.last = [code |-> "auth", body |-> NoResult]], "auth")
    /\ UNCHANGED <<now, ticks, envVars, cacheVars, ctxDone, bk>>

CheckRespondRetry404(a) ==
    /\ w.pc = "check"
    /\ a.code # "err" => ~ctxDone
    /\ IF a.code = "200" THEN PollOk([w EXCEPT !.last = a], a.body)
       ELSE IF a.code \in {"202", "404"}
       THEN /\ w' = [w EXCEPT !.pc = "poll", !.last = a, !.chkEnd = now]
            /\ UNCHANGED db
       ELSE PollFail([w EXCEPT !.last = a], "err")
    /\ UNCHANGED <<now, ticks, envVars, authVars, ctxDone, bk>>

CheckRespondKeepPolling(a) ==
    /\ w.pc = "check"
    /\ a.code # "err" => ~ctxDone
    /\ IF a.code \in {"200", "202"}
       THEN /\ w' = [w EXCEPT !.pc = "poll", !.last = a, !.chkEnd = now]
            /\ UNCHANGED db
       ELSE PollFail([w EXCEPT !.last = a], "err")
    /\ UNCHANGED <<now, ticks, envVars, authVars, ctxDone, bk>>

\* The status request is answered, and pollResults switches on the status.
CheckRespond(a) ==
    /\ w.pc = "check"
    /\ a.code # "err" => ~ctxDone
    /\ IF a.code = "200" THEN PollOk([w EXCEPT !.last = a], a.body)
       ELSE IF a.code = "202"
       THEN /\ w' = [w EXCEPT !.pc = "poll", !.last = a, !.chkEnd = now]
            /\ UNCHANGED db
       ELSE PollFail([w EXCEPT !.last = a],
                     CASE a.code = "404" -> "notfound"
                       [] a.code = "500" -> "status"
                       [] OTHER -> "err")
    /\ UNCHANGED <<now, ticks, envVars, authVars, ctxDone, bk>>

\* SIGINT or SIGTERM: signal.NotifyContext cancels the context.
Cancel ==
    /\ boot = "ready"
    /\ ~ctxDone
    /\ ctxDone' = TRUE
    /\ UNCHANGED <<now, ticks, envVars, authVars, w, db, bk>>

-----------------------------------------------------------------------------
\* The API server: GET /htmx/apps/{id}

Statuses == {"pending", "verified", "failed"}     \* models.VerificationStatus
NoView == [code |-> "none", deps |-> <<>>, status |-> ""]

\* DB.GetDeploymentsByAppID: WHERE app_id = ? ORDER BY deployment_name ASC
GetDeploymentsByAppID(a) ==
    LET present(n) == db.deps[<<a, n>>].status # "none"
        names == SelectSeq(NameOrder, present)
    IN [i \in 1..Len(names) |-> [name |-> names[i], status |-> db.deps[<<a, names[i]>>].status]]

\* renderAppCard: the mainnet record (the last one of that name) ...
MainnetOf(deps) ==
    LET isMain(d) == d.name = "mainnet"
        ms == SelectSeq(deps, isMain)
    IN IF ms = <<>> THEN <<>> ELSE <<ms[Len(ms)]>>

\* ... and the other records, in the order given.
OthersOf(deps) ==
    LET notMain(d) == d.name # "mainnet"
    IN SelectSeq(deps, notMain)

DefaultFailed == "failed"

\* aggregatedStatus := "pending"
DefaultStatus == "pending"

AggregateVerifiedFirst(deps) ==
    IF \E i \in 1..Len(deps) : deps[i].status = "verified" THEN "verified"
    ELSE IF MainnetOf(deps) # <<>> THEN MainnetOf(deps)[1].status
    ELSE IF OthersOf(deps) # <<>> THEN OthersOf(deps)[1].status
    ELSE DefaultStatus

AggregateFirstOther(deps) ==
    IF MainnetOf(deps) # <<>> THEN MainnetOf(deps)[1].status
    ELSE IF OthersOf(deps) # <<>> THEN OthersOf(deps)[1].status
    ELSE DefaultStatus

\* renderAppCard: mainnet preferred, otherwise verified if any other record is
\* verified, otherwise the status of the first other record.
AggregatedStatus(deps) ==
    IF MainnetOf(deps) # <<>> THEN MainnetOf(deps)[1].status
    ELSE IF OthersOf(deps) # <<>>
    THEN IF \E i \in 1..Len(OthersOf(deps)) : OthersOf(deps)[i].status = "verified"
         THEN "verified"
         ELSE OthersOf(deps)[1].status
    ELSE DefaultStatus

\* renderAppCard fails on a stored rofl.yaml that does not parse.
renderAppCard(yaml, deps) ==
    IF yaml.kind = "bad" THEN [code |-> "500", deps |-> deps, status |-> ""]
    ELSE [code |-> "200", deps |-> deps, status |-> AggregatedStatus(deps)]

\* handleGetApp: GetAppByID, GetDeploymentsByAppID (depsOk: it succeeded; on
\* an error the card is rendered with no deployments), renderAppCard.
handleGetApp(a, depsOk) ==
    /\ boot = "ready"
    /\ view' = IF a > db.apps THEN [code |-> "404", deps |-> <<>>, status |-> ""]
               ELSE renderAppCard(db.yaml[a], IF depsOk THEN GetDeploymentsByAppID(a) ELSE <<>>)
    /\ UNCHANGED <<now, ticks, cfg, repo, boot, sessions, tbl, diag, authVars, schedVars>>

-----------------------------------------------------------------------------
\* The failure diagnostic: Worker.formatVerificationError and
\* Worker.parseMismatchedIDs on texts. A string is its sequence of characters,
\* a line its sequence of whitespace-separated words (strings.Fields), an
\* output its sequence of lines (strings.Split on "\n").

\* strings.Contains
Contains(s, sub) ==
    \E i \in 1..(Len(s) - Len(sub) + 1) : SubSeq(s, i, i + Len(sub) - 1) = sub

\* strings.HasPrefix
HasPrefix(s, pre) == Len(s) >= Len(pre) /\ SubSeq(s, 1, Len(pre)) = pre

\* strings.ToLower, on the letters the texts of the model use
LowerChar(c) == IF c = "M" THEN "m" ELSE IF c = "E" THEN "e" ELSE IF c = "A" THEN "a" ELSE c
LowerString(s) == [i \in 1..Len(s) |-> LowerChar(s[i])]

\* strings.TrimRight(word, ",.;:")
RECURSIVE TrimRight(_)
TrimRight(s) ==
    IF s # <<>> /\ s[Len(s)] \in {",", ".", ";", ":"} THEN TrimRight(SubSeq(s, 1, Len(s) - 1)) ELSE s

Rofl1 == <<"r", "o", "f", "l", "1">>
ExitStatus1 == <<"e", "x", "i", "t", " ", "s", "t", "a", "t", "u", "s", " ", "1">>
Command == <<"c", "o", "m", "m", "a", "n", "d">>
MismatchWord == <<"m", "i", "s", "m", "a", "t", "c", "h">>
ExpectedWord == <<"e", "x", "p", "e", "c", "t", "e", "d">>
ActualWord == <<"a", "c", "t", "u", "a", "l">>

\* Words of a backend's output: two enclave identifiers, the first one also
\* followed by a comma, an identifier too short to count, a capitalised
\* mismatch indicator.
IdA == <<"r", "o", "f", "l", "1", "a", "a", "a", "a", "a", "a">>
IdAComma == <<"r", "o", "f", "l", "1", "a", "a", "a", "a", "a", "a", ",">>
IdB == <<"r", "o", "f", "l", "1", "b", "b", "b", "b", "b", "b">>
ShortId == <<"r", "o", "f", "l", "1", "c", "c">>
Indicator == <<"M", "i", "s", "m", "a", "t", "c", "h", ":">>
OutputWords == {IdA, IdAComma, IdB, ShortId, Indicator}

\* Lines of at most two words.
OutputLines == {<<>>} \cup {<<a>> : a \in OutputWords} \cup {<<a, b>> : a, b \in OutputWords}

\* Raw error texts of a result.
ErrTexts == {<<>>, ExitStatus1, <<"u", "n", "k", "n", "o", "w", "n", " ", "c", "o", "m", "m", "a", "n", "d">>, <<"t", "i", "m", "e", "o", "u", "t">>}

\* VerifyDeploymentsResult with verified = false: Err, Stderr, Stdout.
FailedResults ==
    {[err |-> e, stderr |-> <<l1>>, stdout |-> <<l2>>] :
        e \in ErrTexts, l1 \in OutputLines, l2 \in OutputLines}

\* The words of a line that are taken as identifiers, trimmed.
IdsOfLine(line) ==
    LET isId(wd) == HasPrefix(wd, Rofl1) /\ Len(wd) > 10
        found == SelectSeq(line, isId)
    IN [i \in 1..Len(found) |-> TrimRight(found[i])]

LineContains(line, sub) == \E i \in 1..Len(line) : Contains(line[i], sub)

\* The identifiers parseMismatchedIDs appends for one line: those of a line
\* containing "rofl1", and once more those of such a line that also holds a
\* mismatch indicator.
IdsAppended(line) ==
    LET lower == [i \in 1..Len(line) |-> LowerString(line[i])]
        first == IF LineContains(line, Rofl1) THEN IdsOfLine(line) ELSE <<>>
        again == IF /\ \/ LineContains(lower, MismatchWord)
                       \/ LineContains(lower, ExpectedWord)
                       \/ LineContains(lower, ActualWord)
                    /\ LineContains(line, Rofl1)
                 THEN IdsOfLine(line) ELSE <<>>
    IN first \o again

RECURSIVE CollectIds(_)
CollectIds(lines) ==
    IF lines = <<>> THEN <<>> ELSE IdsAppended(Head(lines)) \o CollectIds(Tail(lines))

KeepDuplicates(ids) == ids

\* "Remove duplicates": the first occurrence of each identifier is kept.
RECURSIVE RemoveDuplicates(_)
RemoveDuplicates(ids) ==
    IF ids = <<>> THEN <<>>
    ELSE LET init == RemoveDuplicates(SubSeq(ids, 1, Len(ids) - 1))
             last == ids[Len(ids)]
         IN IF \E i \in 1..Len(init) : init[i] = last THEN init ELSE Append(init, last)

\* Worker.parseMismatchedIDs
parseMismatchedIDs(output) == RemoveDuplicates(CollectIds(output))

NoDiag == [kind |-> "none", ids |-> <<>>, text |-> <<>>, res |-> [err |-> <<>>, stderr |-> <<>>, stdout |-> <<>>]]

\* Worker.formatVerificationError: the message as its kind, the identifiers it
\* lists and the raw text it repeats.
FormatMessage(result) ==
    IF Contains(result.err, ExitStatus1) \/ Contains(result.err, Command)
    THEN [kind |-> "mismatch", ids |-> parseMismatchedIDs(result.stderr \o result.stdout), text |-> <<>>,
          res |-> result]
    ELSE IF result.err # <<>>
    THEN [kind |-> "raw", ids |-> <<>>, text |-> result.err, res |-> result]
    ELSE [kind |-> "generic", ids |-> <<>>, text |-> <<>>, res |-> result]

\* verifyDeployment formats the message of a result that is not verified.
FormatStep(result) ==
    /\ diag = NoDiag
    /\ diag' = FormatMessage(result)
    /\ UNCHANGED <<now, ticks, cfg, repo, boot, sessions, view, tbl, authVars, schedVars>>

-----------------------------------------------------------------------------
\* Time in the worker specification. The worker's own steps take no time;
\* time passes while it waits: in a sleep, in the select of pollResults, for
\* the answer to a request (at most the client's timeout).
WaitsUntil ==
    CASE w.pc = "sleep" -> w.wakeAt
      [] w.pc = "poll" -> w.nextTick
      [] w.pc \in {"fetch", "submit", "check"} -> w.req + HttpTimeout
      [] w.pc \in {"submit_auth", "check_auth"} /\ gt[Sched].pc \in {"nonce", "login"}
            -> gt[Sched].req + HttpTimeout
      [] OTHER -> now

Blocked ==
    /\ ~ctxDone
    /\ now < WaitsUntil
    /\ w.pc = "poll" => ~w.tick

TickerLive == w.pc \in {"poll", "check_auth", "check"}

\* time.NewTicker: a tick every PollInterval into a channel of capacity one.
TickerAt(t) ==
    IF TickerLive /\ t >= w.nextTick
    THEN [w EXCEPT !.tick = TRUE,
                   !.nextTick = @ + PollInterval * (((t - @) \div PollInterval) + 1)]
    ELSE w

\* Time passes in steps of a request timeout or a minute; a wait longer than
\* MaxNow passes in one step.
SchedSteps == IF WaitsUntil - now > MaxNow THEN {WaitsUntil - now} ELSE {HttpTimeout, 60}

\* The clock stops MaxNow seconds after the start; once a poll interval longer
\* than that has passed, MaxNow seconds after the first tick could come.
Horizon == IF PollInterval > MaxNow /\ now >= PollInterval THEN PollInterval + MaxNow ELSE MaxNow

TickSched ==
    /\ now < Horizon
    /\ Blocked
    /\ \E d \in SchedSteps :
         /\ now' = Min(now + d, WaitsUntil)
         /\ w' = TickerAt(Min(now + d, WaitsUntil))
    /\ UNCHANGED <<ticks, envVars, authVars, ctxDone, db, bk>>

-----------------------------------------------------------------------------
InitProcess ==
    /\ now = 0
    /\ ticks = 0
    /\ boot = "init"
    /\ sessions = {}
    /\ token = [cl \in Clients |-> NoToken]
    /\ exp = [cl \in Clients |-> 0]
    /\ mu = [cl \in Clients |-> [w |-> NoCaller, r |-> {}]]
    /\ hs = [cl \in Clients |-> [ok |-> 0, failed |-> FALSE, why |-> "none", acct |-> ""]]
    /\ issuedAt = <<>>
    /\ gt = [c \in Callers |-> IdleCall]
    /\ ctxDone = FALSE
    /\ w = IdleWorker
    /\ bk = [tasks |-> 0]
    /\ view = NoView
    /\ tbl = <<>>
    /\ diag = NoDiag

\* The process starts on a store holding the registered apps and, in one of
\* the runs, the records of an earlier run.
Init ==
    /\ InitProcess
    /\ \E wd \in Worlds :
         /\ cfg = wd.cfg
         /\ repo = wd.repo
         /\ db = [apps |-> wd.apps, yaml |-> [a \in AppIds |-> NoYaml],
                  deps |-> [k \in AppIds \X Names |->
                              IF wd.old /\ k \in DOMAIN EarlierRun THEN EarlierRun[k] ELSE NoRec]]

\* The stores on which cards are rendered: app 1 with any rofl.yaml and any
\* deployment records (one per name at most, by the UNIQUE constraint).
StoredYamls == {NoYaml, Manifest("bad", {}), Manifest("yaml", {}), Manifest("yaml", {"mainnet", "testnet"})}

InitRender ==
    /\ InitProcess
    /\ \E wd \in {x \in Worlds : x.apps = 1}, y \in StoredYamls, st \in [Names -> Statuses \cup {"none"}] :
         /\ cfg = wd.cfg
         /\ repo = wd.repo
         /\ db = [apps |-> wd.apps,
                  yaml |-> [a \in AppIds |-> IF a = 1 THEN y ELSE NoYaml],
                  deps |-> [k \in AppIds \X Names |->
                              IF k[1] = 1 THEN [NoRec EXCEPT !.status = st[k[2]]] ELSE NoRec]]

\* The token cache under concurrent callers: the proxy requests on the API
\* server's client.
NextAuth ==
    \/ ApiNew
    \/ WorkerNew
    \/ \E c \in Proxies : Call(c)
    \/ \E c \in Proxies : GetTokenStep(c, IF c = 1 THEN LoginResponses ELSE PlainResponses)
    \/ TickAuth

\* GetToken reads nothing of the worker's configuration but the private key:
\* the token cache is explored in the worlds whose worker is enabled and whose
\* poll interval is short.
InitAuth == Init /\ cfg.enabled /\ cfg.pollInterval <= MaxNow

SpecAuth == InitAuth /\ [][NextAuth]_vars

\* The store under any sequence of upserts: the values verifyDeployment writes,
\* for the deployments of two apps.
StoreNames == {"mainnet", "testnet"}
StoreValues ==
    { [commit |-> "", status |-> "failed", msg |-> "submit"],
      [commit |-> "abc123", status |-> "verified", msg |-> "MATCH"],
      [commit |-> "abc123", status |-> "failed", msg |-> "generic"] }

StoreUpsert(app, name, v) ==
    /\ Len(tbl) < MaxRows
    /\ tbl' = UpsertRows(tbl, app, name, v.commit, v.status, v.msg)
    /\ db' = [db EXCEPT !.deps = UpsertDeployment(@, app, name, v.commit, v.status, v.msg)]
    /\ UNCHANGED <<now, ticks, cfg, repo, boot, sessions, view, diag, authVars, ctxDone, w, bk>>

InitStore == Init /\ db.apps = 2 /\ cfg.pollInterval = 40

NextStore == \E app \in AppIds, name \in StoreNames, v \in StoreValues : StoreUpsert(app, name, v)

SpecStore == InitStore /\ [][NextStore]_vars

\* The rows of an app in the order the table holds them.
SelectUnordered(rows, a) ==
    LET mine(r) == r.app = a
        rs == SelectSeq(rows, mine)
    IN [i \in 1..Len(rs) |-> [name |-> rs[i].name, status |-> rs[i].status]]

\* DB.GetDeploymentsByAppID on the rows: WHERE app_id = ? ORDER BY deployment_name ASC
SelectDeployments(rows, a) ==
    LET has(n) == HasRow(rows, a, n)
        names == SelectSeq(NameOrder, has)
    IN [i \in 1..Len(names) |->
            [name |-> names[i], status |-> RecordOf(rows, <<a, names[i]>>).status]]

\* handleGetApp on a table written row by row.
CardGetApp(a) ==
    /\ boot = "ready"
    /\ view' = IF a > db.apps THEN [code |-> "404", deps |-> <<>>, status |-> ""]
               ELSE renderAppCard(db.yaml[a], SelectDeployments(tbl, a))
    /\ UNCHANGED <<now, ticks, cfg, repo, boot, sessions, tbl, diag, authVars, schedVars>>

CardNames == {"devnet", "mainnet", "testnet"}

\* The records of app 1 written in any order, with any status, once the
\* process is up, and its card.
NextCard ==
    \/ ApiNew
    \/ WorkerNew
    \/ \E name \in CardNames, st \in Statuses :
          boot = "ready" /\ StoreUpsert(1, name, [commit |-> "", status |-> st, msg |-> ""])
    \/ CardGetApp(1)

SpecCard == InitStore /\ [][NextCard]_vars

\* The message of every failed result of the model.
NextFormat == \E result \in FailedResults : FormatStep(result)

SpecFormat == InitStore /\ [][NextFormat]_vars

\* The card of an app, rendered from the store.
NextRender ==
    \/ ApiNew
    \/ WorkerNew
    \/ \E a \in AppIds, depsOk \in BOOLEAN : handleGetApp(a, depsOk)

SpecRender == InitRender /\ [][NextRender]_vars

\* The worker, from cmd.run to the return of Start.
Next ==
    \/ ApiNew
    \/ WorkerNew
    \/ Cancel
    \/ Start
    \/ \E listed \in BOOLEAN : CycleHead(listed)
    \/ SleepCancel
    \/ SleepWake
    \/ AppHead
    \/ \E m \in FetchAnswers, stored \in BOOLEAN : FetchRespond(m, stored)
    \/ DepNext
    \/ SubmitAuthDone
    \/ \E o \in SubmitOutcomes : SubmitRespond(o)
    \/ PollCancel
    \/ PollTick
    \/ CheckAuthDone
    \/ \E a \in StatusAnswers : CheckRespond(a)
    \/ GetTokenStep(Sched, LoginResponses)
    \/ TickSched

Spec == Init /\ [][Next]_vars

\* The steps of the worker goroutine, the answers to its requests included
\* (every request is answered or fails, at the latest at the client's timeout).
WorkerStep ==
    \/ Start
    \/ \E listed \in BOOLEAN : CycleHead(listed)
    \/ SleepCancel
    \/ SleepWake
    \/ AppHead
    \/ \E m \in FetchAnswers, stored \in BOOLEAN : FetchRespond(m, stored)
    \/ DepNext
    \/ SubmitAuthDone
    \/ \E o \in SubmitOutcomes : SubmitRespond(o)
    \/ PollCancel
    \/ PollTick
    \/ CheckAuthDone
    \/ \E a \in StatusAnswers : CheckRespond(a)
    \/ GetTokenStep(Sched, LoginResponses)

\* The worker under a scheduler that keeps running its goroutine.
SpecLive == Init /\ [][Next]_vars /\ WF_vars(WorkerStep)

-----------------------------------------------------------------------------
\* Properties of the token cache (SpecAuth).

CallersOf(cl) == {c \in Callers : ClientOf(c) = cl}

\* C1: on one AuthClient whose cache starts empty, while no handshake has
\* failed and a token cached since the start is still valid, concurrent
\* GetToken callers cause one handshake only (never two in flight at once, never
\* a second one), and every caller that has returned got the one cached token.
C1_OneHandshake ==
    \A cl \in Clients :
        (~hs[cl].failed /\ now + Margin < CacheLife) =>
            /\ Cardinality(InFlight(cl)) <= 1
            /\ hs[cl].ok + Cardinality(InFlight(cl)) <= 1
            /\ \A c \in CallersOf(cl) :
                    gt[c].pc = "ret" =>
                        /\ gt[c].res.ok
                        /\ gt[c].res.tok = token[cl]
                        /\ hs[cl].ok = 1

\* Two callers both found the cache empty at their first check, and both have
\* returned the token of the only handshake.
C1_Witness ==
    /\ hs["api"].ok = 1 /\ ~hs["api"].failed
    /\ \A c \in Proxies :
            gt[c].pc = "ret" /\ gt[c].slow /\ gt[c].res.ok /\ gt[c].res.tok = token["api"]
    /\ \E c \in Proxies : ~gt[c].own

\* C2: a caller that had to wait for the handshake of another caller never
\* starts a handshake of its own; it returns the outcome of the one it waited for.
C2_NoOwnHandshake ==
    \A c \in Callers :
        gt[c].waited \in {"ok", "failed"} =>
            /\ ~gt[c].own
            /\ gt[c].pc = "ret" =>
                    /\ gt[c].res.ok = (gt[c].waited = "ok")
                    /\ gt[c].res.tok = gt[c].wtok

\* C3: at most one AuthClient exists in the process, and at most one handshake
\* is in flight over all of them.
C3_OneSession ==
    /\ Cardinality(sessions) <= 1
    /\ Cardinality(UNION {InFlight(cl) : cl \in Clients}) <= 1

\* The validity left on the cached token of c's client when c's handshake began.
LeftAtBegin(c) == exp[ClientOf(c)] - gt[c].began

\* A handshake in progress holds the write lock, so token and exp are those
\* GetToken tested when it decided to begin.
Handshaking(c) == gt[c].pc \in {"nonce", "login"}

\* C4 as stated: a handshake begins only with an empty cache or with strictly
\* less than 5 minutes of validity left.
C4_StrictlyLess ==
    \A c \in Callers :
        Handshaking(c) => (token[ClientOf(c)] = NoToken \/ LeftAtBegin(c) < Margin)

\* C4 amended: a handshake begins only with an empty cache or with 5 minutes of
\* validity or less left, and a call that returns the cached token without a
\* handshake does so only with strictly more than 5 minutes left.
C4_AtMostMargin ==
    \A c \in Callers :
        /\ Handshaking(c) => (token[ClientOf(c)] = NoToken \/ LeftAtBegin(c) <= Margin)
        /\ (gt[c].pc = "ret" /\ ~gt[c].own) =>
                /\ gt[c].res.ok
                /\ gt[c].res.tok = token[ClientOf(c)] => exp[ClientOf(c)] - gt[c].at > Margin

\* A handshake under way that began with exactly 5 minutes left on the cached token.
C4_Witness ==
    \E c \in Callers :
        Handshaking(c) /\ token[ClientOf(c)] # NoToken /\ LeftAtBegin(c) = Margin

\* C5: a token returned by GetToken is returned within 12 hours of its issuance
\* by the login endpoint.
C5_WithinLifetime ==
    \A c \in Callers :
        (gt[c].pc = "ret" /\ gt[c].res.ok) =>
            gt[c].at <= issuedAt[gt[c].res.tok] + BackendLife

\* A cached token returned, without a handshake, at the last second before
\* GetToken stops trusting it.
C5_Witness ==
    \E c \in Callers :
        /\ gt[c].pc = "ret" /\ gt[c].res.ok /\ ~gt[c].own
        /\ gt[c].at + Margin + 1 = exp[ClientOf(c)]
        /\ gt[c].at > issuedAt[gt[c].res.tok] + HttpTimeout

-----------------------------------------------------------------------------
\* Properties of the worker (Spec).

\* pollResults has returned and verifyDeployment has recorded the outcome.
PollReturned == w.pc = "dep" /\ w.poll.kind # "none"

\* C6: when the backend answers 200 with a result, pollResults returns that
\* result as a success at once, and no status request follows a 200 answer.
C6_SuccessOn200 ==
    /\ w.last.code = "200" =>
            /\ PollReturned
            /\ w.poll.kind = "ok" /\ w.poll.res = w.last.body /\ w.poll.at = now
    /\ w.poll.kind = "ok" => w.last.code = "200"
    /\ ~w.reqAfter200

\* A poll that got 202 first and then 200 has returned the result, which is
\* now in the store.
C6_Witness ==
    /\ PollReturned
    /\ w.reqs >= 2
    /\ w.last.code = "200"
    /\ w.poll.res.verified
    /\ db.deps[<<CurApp(w), w.cur>>].status = "verified"

C8_NoTickAfterCancel == ~w.reqAfterCancel /\ ~w.tickAfterCancel

\* C8 amended: after the cancellation no status request is sent; a tick that is
\* ready together with the cancellation may still be taken, and then the poll
\* ends in the timeout or in the error of a request that was not sent.
C8_NoRequestAfterCancel ==
    /\ ~w.reqAfterCancel
    /\ (w.pc = "check" /\ ctxDone) => w.reqs >= 1
    /\ (w.tickAfterCancel /\ PollReturned) => w.poll.kind \in {"timeout", "err", "auth"}

\* A tick was taken after the cancellation, before any status request of this
\* poll: the check failed without a request.
C8_Witness ==
    /\ ctxDone
    /\ w.tickAfterCancel
    /\ PollReturned
    /\ w.poll.kind = "err"
    /\ w.reqs = 0

\* C9: an enabled worker's Start returns only once the context is cancelled, and
\* it returns the context's error.
C9_ReturnsOnCancelOnly ==
    (w.pc = "ret" /\ cfg.enabled) => (ctxDone /\ w.ret = "ctxErr")

\* Start has returned after a verification failed and was recorded.
C9_Witness ==
    /\ w.pc = "ret"
    /\ cfg.enabled
    /\ w.ret = "ctxErr"
    /\ \E k \in AppIds \X Names : db.deps[k].status = "failed"

\* C10: at most one app is inside verifyApp, and at most one submitted task is
\* awaiting the end of its poll.
C10_OneAtATime ==
    /\ Cardinality(w.processing) <= 1
    /\ Cardinality(w.awaiting) <= 1

\* The second task of a cycle is being polled, the first one having ended.
C10_Witness ==
    /\ w.processing = {1}
    /\ w.awaiting = {2}
    /\ w.pc = "check"

-----------------------------------------------------------------------------
\* Properties of the rendered card (SpecRender).

ViewNames == {view.deps[i].name : i \in 1..Len(view.deps)}
ViewHas(name, status) ==
    \E i \in 1..Len(view.deps) : view.deps[i].name = name /\ view.deps[i].status = status

\* C11: a card rendered from records that include one named mainnet shows the
\* status of the mainnet record, whatever the other records say.
C11_MainnetWins ==
    view.code = "200" =>
        \A i \in 1..Len(view.deps) :
            view.deps[i].name = "mainnet" => view.status = view.deps[i].status

\* A failed mainnet next to a verified testnet and a verified devnet shows failed.
C11_Witness ==
    /\ view.code = "200"
    /\ ViewHas("mainnet", "failed")
    /\ ViewHas("testnet", "verified")
    /\ ViewHas("devnet", "verified")
    /\ view.status = "failed"

\* C12: a card rendered from records without mainnet, one of which at least is
\* verified, shows verified, wherever the verified record stands in the list.
C12_AnyVerified ==
    (view.code = "200" /\ "mainnet" \notin ViewNames
        /\ \E i \in 1..Len(view.deps) : view.deps[i].status = "verified")
    => view.status = "verified"

\* Three records without mainnet, the first failed, the second pending, the
\* last verified: the card shows verified.
C12_Witness ==
    /\ view.code = "200"
    /\ Len(view.deps) = 3
    /\ view.deps[1].status = "failed"
    /\ view.deps[2].status = "pending"
    /\ view.deps[3].status = "verified"
    /\ "mainnet" \notin ViewNames
    /\ view.status = "verified"

\* C13: a card rendered from no record at all shows pending.
C13_NoRecordPending ==
    (view.code = "200" /\ view.deps = <<>>) => view.status = "pending"

\* The card of a registered app whose manifest was never fetched and which has
\* no record in the deployments table.
C13_Witness ==
    /\ view.code = "200"
    /\ view.deps = <<>>
    /\ view.status = "pending"
    /\ db.yaml[1] = NoYaml
    /\ \A n \in Names : db.deps[<<1, n>>] = NoRec

-----------------------------------------------------------------------------
\* Properties of verifyDeployment and pollResults (Spec).

\* The record of the deployment verifyDeployment has just been through.
CurRecord == db.deps[<<CurApp(w), w.cur>>]

\* verifyDeployment has returned.
DeploymentDone == w.pc = "dep" /\ w.put # NoPut

\* C14: when the poll ends with 200 and verified=true, verifyDeployment upserts
\* status verified, the backend's commit hash and the MATCH message, and the
\* record of that deployment is that one as soon as the store takes the write.
C14_VerifiedRecorded ==
    (PollReturned /\ w.poll.kind = "ok" /\ w.poll.res.verified) =>
        /\ w.put.rec = [status |-> "verified", commit |-> w.poll.res.commit, msg |-> "MATCH"]
        /\ w.put.ok => CurRecord = w.put.rec

\* Two 202 answers, then 200 with verified=true and commit abc123: the record
\* is verified, abc123, MATCH.
C14_Witness ==
    /\ PollReturned
    /\ w.reqs = 3
    /\ w.poll.kind = "ok"
    /\ w.poll.res.verified
    /\ w.put.ok
    /\ CurRecord = [status |-> "verified", commit |-> "abc123", msg |-> "MATCH"]

\* The deployments verifyApp has still to go through, is in, or has been through.
Accounted == w.todo \cup w.done \cup (IF w.cur = "" THEN {} ELSE {w.cur})

\* C15: when the submission fails or the poll ends in a failure, verifyDeployment
\* upserts status failed, no commit hash and a message naming the cause (not
\* found for a 404), the record is that one as soon as the store takes the
\* write, and verifyApp goes through every deployment of the manifest all the same.
C15_FailureRecorded ==
    /\ (DeploymentDone /\ w.poll.kind # "ok") =>
            /\ w.put.rec = [status |-> "failed", commit |-> "",
                            msg |-> IF w.poll.kind = "none" THEN "submit" ELSE w.poll.kind]
            /\ w.put.ok => CurRecord = w.put.rec
    /\ (PollReturned /\ w.last.code = "404") => w.put.rec.msg = "notfound"
    /\ w.pc \in {"dep", "submit_auth", "submit", "poll", "check_auth", "check"} =>
            Accounted = repo[CurApp(w)].deps
    /\ (w.pc = "sleep" /\ w.done # {}) => w.done = repo[CurApp(w)].deps

\* The first deployment of the manifest ended with a 404 and is recorded as
\* failed, not found; the status of the second one is being requested.
C15_Witness ==
    /\ w.pc = "check"
    /\ \E n \in w.done : db.deps[<<CurApp(w), n>>] = [status |-> "failed", commit |-> "", msg |-> "notfound"]

\* C16: a 404, another status than 200 and 202, a transport error and a body
\* that does not decode each end the poll with an error at once; while the
\* poll goes on, the last answer, if any, was a 202.
C16_TerminalAnswers ==
    /\ w.last.code \in {"404", "500", "200bad", "err"} =>
            /\ PollReturned
            /\ w.poll.at = now
            /\ w.poll.kind = (CASE w.last.code = "404" -> "notfound"
                                [] w.last.code = "500" -> "status"
                                [] OTHER -> "err")
    /\ w.pc \in {"poll", "check_auth", "check"} => w.last.code \in {"none", "202"}

\* A poll that was answered 202 and then 404 has returned the not-found error.
C16_Witness ==
    /\ PollReturned
    /\ w.reqs >= 2
    /\ w.last.code = "404"
    /\ w.poll.kind = "notfound"

\* C17 as stated: a poll that returns once the context is cancelled returns the
\* cancellation error, never the timeout error, and the cancellation error is
\* returned only for a cancelled context.
C17_CancelNeverTimeout ==
    /\ w.poll.kind = "timeout" => ~w.poll.ctx
    /\ w.poll.kind = "cancel" => w.poll.ctx

\* C17 amended: the cancellation error is returned only for a cancelled
\* context, the timeout error only after the deadline; the timeout error is
\* returned for a cancelled context only if a tick was taken after the
\* cancellation.
C17_DistinctKinds ==
    /\ w.poll.kind = "cancel" => w.poll.ctx
    /\ w.poll.kind = "timeout" => w.poll.at > w.deadline
    /\ (w.poll.kind = "timeout" /\ w.poll.ctx) => w.tickAfterCancel

\* The poll returned the timeout error although the context was cancelled.
C17_Witness ==
    /\ PollReturned
    /\ w.poll.kind = "timeout"
    /\ w.poll.ctx
    /\ w.tickAfterCancel

-----------------------------------------------------------------------------
\* Properties of the handshake's outcome.

Rejected == {"empty", "mismatch"}

\* C18: GetToken never caches or returns a token taken from a login answer
\* whose echoed address is, letter case aside, not the session's own address,
\* nor from an answer with an empty token; the handshake that got such an
\* answer ends in an error: its caller returns no token and, when it was the
\* client's first handshake, the cache stays empty.
C18_RejectedNeverCached ==
    /\ \A cl \in Clients : token[cl] # NoToken => hs[cl].acct = OwnAddress.hex
    /\ \A c \in Callers :
          gt[c].pc = "ret" /\ gt[c].res.ok
          => gt[c].res.tok # NoToken /\ hs[ClientOf(c)].acct = OwnAddress.hex
    /\ \A c \in Callers :
          gt[c].pc = "ret" /\ gt[c].own /\ gt[c].at = now /\ hs[ClientOf(c)].why \in Rejected
          => ~gt[c].res.ok /\ gt[c].res.tok = NoToken
    /\ \A cl \in Clients : hs[cl].why \in Rejected /\ hs[cl].ok = 0 => token[cl] = NoToken

\* The worker's handshake got an answer echoing another address and GetToken
\* returned an error, nothing cached.
C18_Witness ==
    /\ hs["worker"].why = "mismatch"
    /\ gt[Sched].pc = "ret"
    /\ gt[Sched].own
    /\ ~gt[Sched].res.ok
    /\ token["worker"] = NoToken

\* C19: a GetToken call whose handshake fails (at the nonce request, the
\* signing, the login request or a check of the login answer) does not start
\* the handshake again, returns an error and no token, and leaves the cached
\* token and expiry as they were; the cache changes only in the step in which
\* a handshake succeeds.
C19_FailureKeepsCache ==
    [][/\ \A c \in Callers :
             /\ gt[c].pc = "nonce" => gt'[c].pc \in {"nonce", "login", "ret"}
             /\ gt[c].pc = "login" => gt'[c].pc \in {"login", "ret"}
             /\ gt[c].pc \in {"nonce", "login"} /\ gt'[c].pc = "ret" /\ ~gt'[c].res.ok
                => /\ token' = token
                   /\ exp' = exp
                   /\ gt'[c].res.tok = NoToken
       /\ token' # token \/ exp' # exp
          => \E c \in Callers : gt[c].pc = "login" /\ gt'[c].pc = "ret" /\ gt'[c].res.ok]_vars

\* A call found the cached token stale, its handshake got an answer echoing
\* another address, and it returned an error; the stale token is still cached.
C19_Witness ==
    \E c \in Proxies :
        /\ gt[c].pc = "ret"
        /\ gt[c].own
        /\ ~gt[c].res.ok
        /\ gt[c].at = now
        /\ hs["api"].why = "mismatch"
        /\ token["api"] # NoToken
        /\ ~Fresh("api")

-----------------------------------------------------------------------------
\* Properties of the worker's use of GetToken.

\* C20: when GetToken returns an error to the worker, only the operation that
\* asked for the token fails. In submitVerification no submission is sent (no
\* task is issued, no poll begins) and the deployment is recorded as failed; in
\* checkResults no status request is sent, the poll ends with an error and the
\* deployment is recorded as failed. Either way verifyApp is back at the head
\* of its loop with the remaining deployments, and the worker has not returned.
C20_AuthFailureIsLocal ==
    [][gt[Sched].pc = "ret" /\ ~gt[Sched].res.ok /\ w' # w =>
          /\ w.pc \in {"submit_auth", "check_auth"}
          /\ w'.pc = "dep" /\ w'.ret = "none"
          /\ w'.todo = w.todo /\ w'.idx = w.idx /\ w'.apps = w.apps
          /\ bk' = bk
          /\ w'.reqs = w.reqs
          /\ w'.put.rec.status = "failed"
          /\ IF w'.put.ok
             THEN db' = [db EXCEPT !.deps[<<CurApp(w), w.cur>>] = w'.put.rec]
             ELSE db' = db
          /\ w.pc = "submit_auth" => w'.put.rec.msg = "submit" /\ w'.poll = NoPoll
          /\ w.pc = "check_auth" => w'.put.rec.msg = "auth" /\ w'.poll.kind = "auth"
                                    /\ w'.poll.res = NoResult]_vars

\* The token that authenticated the submission for the first app was stale at
\* the first status check and the handshake failed: the poll ended with the
\* authentication error. The worker went on to the second app, whose submission
\* failed to get a token too. Both deployments are recorded as failed and
\* verifyApp is at the head of its loop.
C20_Witness ==
    /\ w.pc = "dep"
    /\ CurApp(w) = 2
    /\ w.done = {"testnet"}
    /\ db.deps[<<1, "testnet">>] = [status |-> "failed", commit |-> "", msg |-> "auth"]
    /\ db.deps[<<2, "testnet">>] = [status |-> "failed", commit |-> "", msg |-> "submit"]
    /\ w.put = [rec |-> db.deps[<<2, "testnet">>], ok |-> TRUE]
    /\ w.task = NoTask
    /\ hs["worker"].why # "none"
    /\ token["worker"] # NoToken
    /\ ~ctxDone

-----------------------------------------------------------------------------
\* Properties of the cycle.

\* C21: in one cycle at most one submission request is sent for each
\* (application, deployment name) pair, whether it is answered with a task or
\* with an error.
C21_OneSubmissionPerCycle ==
    /\ ~w.resent
    /\ w.pc = "submit" => <<CurApp(w), w.cur>> \in w.sent
    /\ \A p \in w.sent : p[1] \in {w.apps[i] : i \in 1..w.idx}

\* A submission failed and was recorded, and verifyApp went on to the next
\* deployment of the same app, whose submission is in flight.
C21_Witness ==
    /\ w.pc = "submit"
    /\ Cardinality(w.sent) = 2
    /\ \E d \in w.done : db.deps[<<CurApp(w), d>>].msg = "submit"
    /\ ~ctxDone

-----------------------------------------------------------------------------
\* Properties of the store (SpecStore).

\* C22: after any sequence of upserts the table holds at most one row per
\* (application, deployment name) pair: an upsert of an absent pair adds one
\* row, an upsert of a present pair changes that row and adds none; the record
\* found by key is the one written last.
C22_OneRecordPerPair ==
    /\ \A i \in 1..Len(tbl), j \in 1..Len(tbl) :
          (tbl[i].app = tbl[j].app /\ tbl[i].name = tbl[j].name) => i = j
    /\ \A i \in 1..Len(tbl) : tbl[i].id = i
    /\ Len(tbl) = Cardinality({k \in AppIds \X Names : db.deps[k].status # "none"})
    /\ \A k \in AppIds \X Names : RecordOf(tbl, k) = db.deps[k]

\* Every pair has its row, and the first row inserted has been updated since.
C22_Witness ==
    /\ Len(tbl) = Cardinality(AppIds \X StoreNames)
    /\ tbl[1].updated
    /\ ~tbl[2].updated

-----------------------------------------------------------------------------
\* Properties of the stored records (Spec).

StoredKeys == {k \in AppIds \X Names : db.deps[k].status # "none"}

\* C23: every stored deployment record has a status among pending, verified
\* and failed, and so has every record verifyDeployment hands to the store.
C23_StatusEnumerated ==
    /\ \A k \in StoredKeys : db.deps[k].status \in Statuses
    /\ w.put # NoPut => w.put.rec.status \in Statuses

\* The store holds a verified record and a failed one, the latter written from
\* a result that reported a failed verification.
C23_Witness ==
    /\ \E k \in StoredKeys : db.deps[k].status = "verified"
    /\ \E k \in StoredKeys : db.deps[k].status = "failed" /\ db.deps[k].commit # ""

-----------------------------------------------------------------------------
\* Properties of cancellation (SpecLive, Spec).

\* C24: once the context is cancelled Start eventually returns, whichever wait
\* the worker is in (no time needs to pass: the clock of the model stands still
\* after the cancellation), and no verifyApp begins after the cancellation.
C24_StartReturns ==
    /\ ctxDone ~> (w.pc = "ret")
    /\ [][ctxDone /\ w'.pc = "fetch" => w.pc = "fetch"]_vars

\* Start has returned the context's error out of the wait between two apps,
\* before the timer of that wait.
C24_Witness ==
    /\ w.pc = "ret"
    /\ w.ret = "ctxErr"
    /\ ctxDone
    /\ w.after = "app"
    /\ now < w.wakeAt

\* C25 as stated: once the context is cancelled verifyApp goes through no
\* further deployment of the app it is in.
C25_AbandonsApp ==
    [][ctxDone /\ w.pc = "dep" => w'.done = w.done]_vars

\* C25 amended: verifyApp does not leave its loop on cancellation, it goes
\* through the remaining deployments of the manifest; but after the
\* cancellation no submission request is sent, no poll begins, no task is
\* issued and no record is written, so each remaining deployment fails at once
\* and leaves no trace in the store.
C25_NothingSentNorWritten ==
    /\ [][ctxDone =>
            /\ w'.pc = "submit" => w.pc = "submit"
            /\ w'.pc = "poll" => w.pc = "poll"
            /\ w'.sent = w.sent
            /\ bk' = bk
            /\ db' = db]_vars
    /\ [](w.pc \in {"sleep", "ret"} /\ w.after # "" /\ w.done # {}
            => w.done = repo[CurApp(w)].deps)

\* The context was cancelled while the first deployment of an app was being
\* verified; verifyApp has gone through the second one all the same: its
\* submission failed without a request and its record could not be written.
C25_Witness ==
    \E a \in Names, b \in Names :
        /\ a # b
        /\ w.done = {a, b}
        /\ w.cur = b
        /\ ctxDone
        /\ w.pc = "dep"
        /\ w.sent = {<<CurApp(w), a>>}
        /\ db.deps[<<CurApp(w), a>>].status = "verified"
        /\ db.deps[<<CurApp(w), b>>] = NoRec
        /\ w.put = [rec |-> [status |-> "failed", commit |-> "", msg |-> "submit"], ok |-> FALSE]

-----------------------------------------------------------------------------
\* Properties of the loop of Start (Spec).

\* verifyApp is running.
InApp == w.pc \in {"fetch", "dep", "submit_auth", "submit", "poll", "check_auth", "check"}

\* C26: a wait of one app interval begins when verifyApp returns: the wait
\* between apps when another app of the listing follows, else the wait between
\* cycles. The next app is started only out of the former, the next listing only
\* out of the latter (or out of the wait after an empty or failed listing), and
\* neither before the interval has passed; a wait is left early only by the
\* return of Start on cancellation. Nothing is sent during a wait.
C26_Waits ==
    [][/\ (w.pc # "sleep" /\ w'.pc = "sleep") =>
             /\ w'.wakeAt = now + AppInterval
             /\ InApp \/ w.pc = "loop"
             /\ InApp => w'.after = (IF w.idx < Len(w.apps) THEN "app" ELSE "cycle")
             /\ w.pc = "loop" => w'.after \in {"retry", "empty"}
       /\ (w.pc = "sleep" /\ w'.pc # "sleep") =>
             /\ w'.pc \in {"app", "loop", "ret"}
             /\ w'.pc = "ret" => ctxDone
             /\ w'.pc # "ret" => now >= w.wakeAt
             /\ w'.pc = "app" => w.after = "app" /\ w'.idx = w.idx + 1
             /\ w'.pc = "loop" => w.after \in {"cycle", "retry", "empty"}
       /\ (w.pc # "app" /\ w'.pc = "app") => w.pc \in {"sleep", "loop"}
       /\ (w.pc # "loop" /\ w'.pc = "loop") => w.pc \in {"start", "sleep"}
       /\ (InApp /\ ~InApp') => w'.pc = "sleep"
       /\ (w.pc = "sleep" /\ w'.pc = "sleep") => w' = w /\ bk' = bk /\ db' = db]_vars

\* The second cycle begins two app intervals after the start: both apps of the
\* first cycle ended at once, one wait lay between them and one after the last.
C26_Witness ==
    /\ w.pc = "fetch"
    /\ Len(w.apps) = 2
    /\ w.idx = 1
    /\ w.req = 2 * AppInterval
    /\ now = 2 * AppInterval

\* C27: the listing is in ascending order of id; within a cycle verifyApp is
\* called for the listed apps in that order, each at most once, and when the
\* wait between cycles begins it has been called for every one of them exactly
\* once, whether or not a verifyApp returned an error.
C27_EveryAppOnce ==
    /\ \A i \in 1..Len(w.apps), j \in 1..Len(w.apps) : i < j => w.apps[i] < w.apps[j]
    /\ Len(w.visited) <= Len(w.apps)
    /\ \A i \in 1..Len(w.visited) : w.visited[i] = w.apps[i]
    /\ InApp => Len(w.visited) = w.idx
    /\ (w.pc = "sleep" /\ w.after = "app") => Len(w.visited) = w.idx /\ w.idx < Len(w.apps)
    /\ (w.pc = "sleep" /\ w.after = "cycle") => w.visited = w.apps

\* The verification of a deployment of the first app failed and the manifest of
\* the second app did not parse; both apps have been processed, in order, and
\* the wait between cycles has begun.
C27_Witness ==
    /\ w.pc = "sleep"
    /\ w.after = "cycle"
    /\ w.visited = <<1, 2>>
    /\ w.err
    /\ \E n \in Names : db.deps[<<1, n>>].status = "failed"
    /\ repo[2].kind = "bad"
    /\ ~ctxDone

-----------------------------------------------------------------------------
\* Properties of the manifest fetch (Spec).

\* The deployments the store knows of an app: those with a record and those the
\* stored manifest declares.
KnownDeployments(a) ==
    {n \in Names : db.deps[<<a, n>>].status # "none"} \cup db.yaml[a].deps

\* C28: when the fetch of an app's manifest has failed, the deployments the
\* store knows of that app are recorded as failed.
C28_FetchFailureRecorded ==
    (w.pc = "sleep" /\ w.fetch = "err" /\ ~ctxDone) =>
        \A n \in KnownDeployments(CurApp(w)) : db.deps[<<CurApp(w), n>>].status = "failed"

\* C29: when the manifest was fetched and storing it failed, verifyApp has gone
\* through the deployments the fetched manifest declares by the time it returns.
C29_FetchedManifestUsed ==
    (w.pc = "sleep" /\ w.fetch = "storeErr" /\ ~ctxDone) =>
        w.done = repo[CurApp(w)].deps

-----------------------------------------------------------------------------
\* When the Scheduler writes deployment records (Spec).

\* C30 (as stated): a deployment record is created or changed only in a step
\* in which a poll for that deployment has reached a terminal outcome.
C30_WrittenOnlyAfterPoll ==
    [][db'.deps # db.deps => w'.poll.kind # "none"]_vars

\* C30 (amended): a deployment record is created or changed only in the step
\* that ends verifyDeployment for that deployment, and it is the record of that
\* deployment alone: either its poll has reached a terminal outcome, or its
\* submission failed, no task was obtained, no poll was started and the record
\* is the "failed" one of the submission.
C30_WrittenOnlyAtEnd ==
    [][db'.deps # db.deps =>
          /\ w.pc \in {"dep", "submit_auth", "submit", "poll", "check_auth", "check"}
          /\ w'.pc = "dep"
          /\ w'.cur # "" /\ w'.cur \in w'.done
          /\ w'.put.ok
          /\ db'.deps = [db.deps EXCEPT ![<<CurApp(w'), w'.cur>>] = w'.put.rec]
          /\ w'.poll.kind = "none" =>
                /\ w.pc \in {"dep", "submit_auth", "submit"}
                /\ w'.task = NoTask /\ w'.reqs = 0
                /\ w'.put.rec = [status |-> "failed", commit |-> "", msg |-> "submit"]
          /\ w'.poll.kind # "none" => w.pc \in {"poll", "check_auth", "check"}]_vars

\* A failed submission has been recorded without any poll, and in the same
\* cycle another deployment's record was written after its poll returned.
C30_Witness ==
    /\ w.pc = "dep"
    /\ w.put.ok
    /\ w.poll.kind = "none"
    /\ w.put.rec.status = "failed"
    /\ db.deps[<<CurApp(w), w.cur>>] = w.put.rec
    /\ \E a \in 1..db.apps : db.deps[<<a, "testnet">>].status = "verified"

-----------------------------------------------------------------------------
\* A verification mismatch reported by the backend (Spec).

\* C31: when the poll ends with 200 and verified=false, verifyDeployment upserts
\* status failed, the backend's commit hash and the message derived from the
\* result; once the store takes the write the record is that one, and
\* verifyDeployment returns no error (verifyApp's last error stays as it was).
C31_MismatchIsAnOutcome ==
    [][(w.pc = "check" /\ w'.pc = "dep" /\ w'.poll.kind = "ok" /\ ~w'.poll.res.verified) =>
          /\ w'.last.code = "200"
          /\ w'.put.rec = [status |-> "failed", commit |-> w'.poll.res.commit,
                           msg |-> formatVerificationError(w'.poll.res)]
          /\ w'.put.ok =>
                /\ db'.deps = [db.deps EXCEPT ![<<CurApp(w), w.cur>>] = w'.put.rec]
                /\ w'.err = w.err]_vars

\* A 200 answer with verified=false and commit abc123 is recorded as failed
\* with that commit, and verifyApp has no error to report.
C31_Witness ==
    /\ PollReturned
    /\ w.poll.kind = "ok"
    /\ ~w.poll.res.verified
    /\ w.put.ok
    /\ ~w.err
    /\ CurRecord = [status |-> "failed", commit |-> "abc123", msg |-> "mismatch"]

-----------------------------------------------------------------------------
\* The aggregated status and the order of the records (SpecCard).

\* The place of a name in the order of ORDER BY deployment_name ASC.
NamePos(n) == CHOOSE i \in 1..Len(NameOrder) : NameOrder[i] = n

\* C32: a card rendered from records none of which is named mainnet and none of
\* which is verified shows the status of the record whose name comes first in
\* name order, in whatever order the rows were written.
C32_FirstByName ==
    (view.code = "200" /\ view.deps # <<>> /\ "mainnet" \notin ViewNames
        /\ \A i \in 1..Len(view.deps) : view.deps[i].status # "verified")
    => \A i \in 1..Len(view.deps) :
          (\A j \in 1..Len(view.deps) : NamePos(view.deps[i].name) <= NamePos(view.deps[j].name))
              => view.status = view.deps[i].status

\* The rows were written testnet first (failed), then devnet (pending), and
\* the card rendered from them shows pending, devnet's status.
C32_Witness ==
    /\ Len(tbl) = 2
    /\ tbl[1].name = "testnet" /\ tbl[1].status = "failed"
    /\ tbl[2].name = "devnet" /\ tbl[2].status = "pending"
    /\ view.code = "200"
    /\ view.deps = <<[name |-> "devnet", status |-> "pending"],
                     [name |-> "testnet", status |-> "failed"]>>
    /\ view.status = "pending"

-----------------------------------------------------------------------------
\* The failure diagnostic (SpecFormat).

RECURSIVE Flatten(_)
Flatten(lines) == IF lines = <<>> THEN <<>> ELSE Head(lines) \o Flatten(Tail(lines))

\* The words of the combined output (stderr, then stdout), in order.
OutputOf(result) == Flatten(result.stderr \o result.stdout)

IsId(wd) == HasPrefix(wd, Rofl1) /\ Len(wd) > 10

\* The place where an identifier first appears in the combined output.
FirstAt(words, id) ==
    CHOOSE k \in 1..Len(words) :
        /\ IsId(words[k]) /\ TrimRight(words[k]) = id
        /\ \A j \in 1..(k - 1) : ~(IsId(words[j]) /\ TrimRight(words[j]) = id)

\* The message lists the identifiers found in the combined output, each once,
\* in the order of their first appearance.
IdsListed ==
    LET words == OutputOf(diag.res)
    IN /\ {diag.ids[i] : i \in 1..Len(diag.ids)}
            = {TrimRight(words[k]) : k \in {j \in 1..Len(words) : IsId(words[j])}}
       /\ \A i, j \in 1..Len(diag.ids) :
            i < j => /\ diag.ids[i] # diag.ids[j]
                     /\ FirstAt(words, diag.ids[i]) < FirstAt(words, diag.ids[j])

\* The raw error text names a failed command.
ErrIsCommandFailure == Contains(diag.res.err, ExitStatus1) \/ Contains(diag.res.err, Command)

\* A line of the process output holds a mismatch indicator.
OutputShowsMismatch ==
    \E wd \in {OutputOf(diag.res)[k] : k \in 1..Len(OutputOf(diag.res))} :
        \/ Contains(LowerString(wd), MismatchWord)
        \/ Contains(LowerString(wd), ExpectedWord)
        \/ Contains(LowerString(wd), ActualWord)

\* C33 (as stated): if the raw error text or the process output indicates a
\* mismatch the message is the mismatch message listing the identifiers of the
\* combined output, each once and in order of first appearance; otherwise a
\* non-empty raw error text is returned as it is; otherwise the generic message.
C33_ErrorOrOutput ==
    diag # NoDiag =>
        IF ErrIsCommandFailure \/ OutputShowsMismatch
        THEN diag.kind = "mismatch" /\ IdsListed
        ELSE IF diag.res.err # <<>>
        THEN diag.kind = "raw" /\ diag.text = diag.res.err
        ELSE diag.kind = "generic"

\* C33 (amended): the same precedence, the first case being decided by the raw
\* error text alone (it contains "exit status 1" or "command"); the process
\* output is read for the identifiers only.
C33_ErrorTextDecides ==
    diag # NoDiag =>
        IF ErrIsCommandFailure
        THEN diag.kind = "mismatch" /\ IdsListed
        ELSE IF diag.res.err # <<>>
        THEN diag.kind = "raw" /\ diag.text = diag.res.err
        ELSE diag.kind = "generic"

\* A failed command whose stderr names the second identifier and then the
\* first with a comma, on a line with a mismatch indicator in stdout the first
\* again: the message lists the second, then the first, each once.
C33_Witness ==
    /\ diag.kind = "mismatch"
    /\ diag.res.err = ExitStatus1
    /\ diag.res.stderr = <<(<<IdB, IdAComma>>)>>
    /\ diag.res.stdout = <<(<<Indicator, IdA>>)>>
    /\ diag.ids = <<IdB, IdA>>

-----------------------------------------------------------------------------
\* The order of the deployments within an app (Spec).

\* The app of the current pass of verifyApp.
PassApp == w.visited[Len(w.visited)]

\* C34: whatever the order in which verifyApp goes through the deployments of
\* the manifest, the record of each deployment the store took a write for is
\* the one that deployment's own outcome produced, each deployment is gone
\* through once, and all of them are, also after one of them failed.
C34_OrderIndependent ==
    /\ w.visited # <<>> =>
          \A n \in Names :
              w.outc[n].ok => db.deps[<<PassApp, n>>] = w.outc[n].rec
    /\ {w.order[i] : i \in 1..Len(w.order)} = w.done
    /\ Len(w.order) = Cardinality(w.done)
    /\ (w.pc = "sleep" /\ w.done # {}) => w.done = repo[CurApp(w)].deps

\* testnet was verified before mainnet, against the order of the names; the
\* first failed, the second was verified, and the store holds both outcomes.
C34_Witness ==
    /\ w.pc = "sleep"
    /\ w.order = <<"testnet", "mainnet">>
    /\ w.outc["testnet"].ok /\ w.outc["testnet"].rec.status = "failed"
    /\ w.outc["mainnet"].ok /\ w.outc["mainnet"].rec.status = "verified"
    /\ db.deps[<<PassApp, "testnet">>].status = "failed"
    /\ db.deps[<<PassApp, "mainnet">>].status = "verified"

-----------------------------------------------------------------------------
\* Where a verified record comes from (Spec).

\* C35: verifyDeployment hands a verified record to the store, and a record of
\* the store becomes verified, only in the step in which the poll that followed
\* this cycle's submission for that same app and deployment ends with a 200
\* answer saying verified=true, the context not being cancelled; and it never
\* hands over, nor does the store ever get, a pending record.
C35_VerifiedOnlyFromPoll ==
    [][/\ \/ w'.put.rec.status = "verified" /\ w'.put # w.put
          \/ \E k \in AppIds \X Names :
                db'.deps[k] # db.deps[k] /\ db'.deps[k].status = "verified"
          => /\ w.pc = "check"
             /\ <<CurApp(w), w.cur>> \in w.sent
             /\ w'.last = [code |-> "200", body |-> w'.poll.res]
             /\ w'.poll.kind = "ok"
             /\ w'.poll.res.verified
             /\ ~ctxDone
             /\ w'.put.rec.commit = w'.poll.res.commit
             /\ \A k \in AppIds \X Names :
                   db'.deps[k] # db.deps[k] => k = <<CurApp(w), w.cur>> /\ db'.deps[k] = w'.put.rec
       /\ w'.put.rec.status # "pending"
       /\ \A k \in AppIds \X Names : db'.deps[k].status # "pending"]_vars

\* A deployment has just been recorded as verified from the poll of the task
\* submitted for it, after another deployment of the same app was recorded as
\* failed from a 200 answer saying verified=false.
C35_Witness ==
    /\ w.pc = "dep"
    /\ w.put.ok
    /\ w.put.rec.status = "verified"
    /\ w.task # NoTask
    /\ <<CurApp(w), w.cur>> \in w.sent
    /\ db.deps[<<CurApp(w), w.cur>>].status = "verified"
    /\ \E n \in w.done \ {w.cur} :
          w.outc[n].ok /\ w.outc[n].rec.status = "failed" /\ w.outc[n].rec.commit # ""

-----------------------------------------------------------------------------
\* Cancellation and the stored records (Spec).

\* C36: neither the cancellation nor any step after it changes a deployment
\* record; a verifyDeployment that ends under a cancelled context has its
\* failed record refused by the store, so the deployment keeps the record it had.
C36_CancelKeepsRecords ==
    [][ctxDone' =>
          /\ db'.deps = db.deps
          /\ (w'.pc = "dep" /\ w'.put # w.put) =>
                /\ w'.put.rec.status = "failed"
                /\ ~w'.put.ok
                /\ db'.deps[<<CurApp(w), w'.cur>>] = db.deps[<<CurApp(w), w'.cur>>]]_vars

\* A deployment verified in an earlier cycle is polled again when the context
\* is cancelled: the poll returns the cancellation, the failed record is not
\* stored and the deployment is still verified.
C36_Witness ==
    /\ ctxDone
    /\ w.pc = "dep"
    /\ w.poll.kind = "cancel"
    /\ w.put.rec.status = "failed"
    /\ ~w.put.ok
    /\ db.deps[<<CurApp(w), w.cur>>].status = "verified"

-----------------------------------------------------------------------------
\* Records of deployments that are no longer declared (Spec).

\* C37: no step removes a deployment record; the record of a deployment the
\* app's manifest does not declare is never changed; and every record of an app
\* is among those its card is rendered from.
C37_RecordsKept ==
    /\ [][\A k \in AppIds \X Names :
            db.deps[k] # NoRec =>
                /\ db'.deps[k] # NoRec
                /\ k[2] \notin repo[k[1]].deps => db'.deps[k] = db.deps[k]]_vars
    /\ [](\A a \in 1..db.apps, n \in Names :
            db.deps[<<a, n>>] # NoRec =>
                \E i \in 1..Len(GetDeploymentsByAppID(a)) :
                    GetDeploymentsByAppID(a)[i] = [name |-> n, status |-> db.deps[<<a, n>>].status])

\* After app 1's declared deployment was recorded as failed and app 2 was gone
\* through, the records of the earlier run are as they were, and app 1's card
\* would still show verified, from the record of the undeclared deployment.
C37_Witness ==
    /\ w.visited = <<1, 2>>
    /\ w.pc = "sleep"
    /\ db.deps[<<1, "testnet">>].status = "failed"
    /\ db.deps[<<1, "staging">>] = EarlierRun[<<1, "staging">>]
    /\ db.deps[<<2, "devnet">>] = EarlierRun[<<2, "devnet">>]
    /\ AggregatedStatus(GetDeploymentsByAppID(1)) = "verified"
    /\ AggregatedStatus(GetDeploymentsByAppID(2)) = "failed"

-----------------------------------------------------------------------------
\* The number of status requests of a poll (Spec).

\* When the current call of pollResults began.
PollBegan == w.deadline - PollTimeout

InPoll == w.pc \in {"poll", "check_auth", "check"}

\* C38: pollResults goes from a tick to checkResults no earlier than one poll
\* interval after it began and no later than the deadline; so it sends at most
\* floor(timeout / interval) status requests for a task, and none at all when
\* the interval is longer than the timeout, in which case it ends by the
\* timeout (or by the cancellation of the context).
C38_RequestsBounded ==
    /\ [][(w.pc = "poll" /\ w'.pc \in {"check_auth", "check"}) =>
            /\ now >= PollBegan + PollInterval
            /\ now <= w.deadline]_vars
    /\ []((InPoll \/ PollReturned) => w.reqs <= PollTimeout \div PollInterval)
    /\ []((InPoll \/ PollReturned) /\ PollInterval > PollTimeout =>
            /\ w.reqs = 0
            /\ w.pc = "poll"  \/ (PollReturned /\ w.poll.kind \in {"timeout", "cancel"}))

\* With three intervals to the timeout, the third status request is sent at
\* the deadline itself.
C38_Witness ==
    /\ w.pc = "check"
    /\ PollTimeout \div PollInterval = 3
    /\ w.reqs = 3
    /\ w.req = w.deadline

-----------------------------------------------------------------------------
\* The task a poll is for (Spec).

\* C39: pollResults runs only for a task the backend issued: while it runs the
\* task id is not empty.
C39_PollHasTask ==
    InPoll => w.task # NoTask

====
